---- MODULE Spec2Model ----
(***************************************************************************)
(* Transana transcript editor: the time-code index (self.timecodes), the   *)
(* document buffer of the styled text control and the edit operations of   *)
(* TranscriptEditor that keep the two together.                            *)
(*                                                                         *)
(* The buffer is a sequence of byte positions, as the text control counts  *)
(* them.  In the Unicode build the time-code character is the two bytes    *)
(* 194,164 ("C2","A4"); in the ANSI build it is the one byte 164 ("A4").   *)
(* The Mac branches of the source differ only in the second byte (167).    *)
(***************************************************************************)
EXTENDS Integers, Sequences, FiniteSets, TLC

VARIABLES
    unicode,      \* 'unicode' in wx.PlatformInfo (fixed for a run)
    doc,          \* buffer: sequence of [ch, st], position p is doc[p+1]
    anchor,       \* the control's selection anchor
    curpos,       \* the control's current position (caret)
    codes_vis,    \* self.codes_vis
    hidden_vis,   \* TRUE while the control shows the text of STYLE_HIDDEN
    read_only,    \* GetReadOnly()
    timecodes,    \* self.timecodes
    TranscriptObj,\* TRUE when self.TranscriptObj is set
    current_timecode, \* self.current_timecode
    GetModify,    \* GetModify(): the text was changed since the save point
    TranscriptObj_text,      \* self.TranscriptObj.text, the stored buffer
    isLocked,     \* self.TranscriptObj.isLocked: the record lock is held
    singleUserVersion,  \* TransanaConstants.singleUserVersion (fixed for a run)
    connectionTimer,    \* TRUE while TransanaGlobal.connectionTimer runs
    logonCount,   \* GetNewDatabase's logonCount
    loggedOn,     \* GetNewDatabase's loggedOn
    logon_pc,     \* "loop" inside GetNewDatabase's while, "closed" after
                  \* OnFileExit, else "idle"
    attempts,     \* the calls of establish_db_exists in this GetNewDatabase
    prompts,      \* the questions to try again asked in this GetNewDatabase
    steps,        \* the user's events so far in the session
    last          \* the operation that produced this state and its outcome

vars == <<unicode, doc, anchor, curpos, codes_vis, hidden_vis, read_only,
          timecodes, TranscriptObj, current_timecode, GetModify, TranscriptObj_text, isLocked,
          singleUserVersion, connectionTimer, logonCount, loggedOn, logon_pc, attempts, prompts,
          steps, last>>

\* the state of the database logon
logonVars ==
    <<singleUserVersion, connectionTimer, logonCount, loggedOn, logon_pc, attempts, prompts>>

\* the single-user program with no change of database under way
NoLogon ==
    /\ singleUserVersion = TRUE
    /\ connectionTimer = FALSE
    /\ logonCount = 1
    /\ loggedOn = FALSE
    /\ logon_pc = "idle"
    /\ attempts = 0
    /\ prompts = 0

----------------------------------------------------------------------------
(* Bounds of the model *)

\* the greatest time (ms) a marker carries
MaxTime == 1
\* the greatest number of items (markers, letters) of a stored transcript
MaxLoad == 2
\* the greatest number of user events of a session
MaxSteps == 6
\* the greatest time asked for when only insertions are made
MaxInsertTime == 3

Times == 0..MaxTime

----------------------------------------------------------------------------
(* Characters and styles *)

STYLE_HIDDEN == "hidden"
STYLE_TIMECODE == "timecode"
STYLE_PLAIN == "plain"

DIGITS == <<"0", "1", "2", "3", "4", "5", "6", "7", "8", "9">>

IsDigit(c) == \E i \in 1..10 : DIGITS[i] = c

DigitVal(c) == (CHOOSE i \in 1..10 : DIGITS[i] = c) - 1

Min(a, b) == IF a <= b THEN a ELSE b

Max(a, b) == IF a >= b THEN a ELSE b

\* TIMECODE_CHAR as the bytes the control stores
TIMECODE_CHAR(u) == IF u THEN <<"C2", "A4">> ELSE <<"A4">>

\* a "%d" that keeps the last digit only
FormatNat_LastDigit(n) == <<DIGITS[(n % 10) + 1]>>

\* the "%d" conversion
RECURSIVE FormatNat(_)
FormatNat(n) == IF n < 10 THEN <<DIGITS[n + 1]>>
                ELSE FormatNat(n \div 10) \o <<DIGITS[(n % 10) + 1]>>

FormatInt(n) == IF n < 0 THEN <<"-">> \o FormatNat(0 - n) ELSE FormatNat(n)

\* int(): [ok, v]; ok is FALSE where Python raises ValueError
RECURSIVE ParseNat(_, _)
ParseNat(s, acc) == IF s = <<>> THEN acc
                    ELSE ParseNat(Tail(s), acc * 10 + DigitVal(Head(s)))

AllDigits(s) == s # <<>> /\ \A i \in 1..Len(s) : IsDigit(s[i])

ParseInt(s) ==
    IF AllDigits(s) THEN [ok |-> TRUE, v |-> ParseNat(s, 0)]
    ELSE IF s # <<>> /\ Head(s) \in {"-", "+"} /\ AllDigits(Tail(s))
         THEN [ok |-> TRUE,
               v |-> IF Head(s) = "-" THEN 0 - ParseNat(Tail(s), 0)
                     ELSE ParseNat(Tail(s), 0)]
         ELSE [ok |-> FALSE, v |-> 0]

Styled(chars, st) == [i \in 1..Len(chars) |-> [ch |-> chars[i], st |-> st]]

Chars(d) == [i \in 1..Len(d) |-> d[i].ch]

----------------------------------------------------------------------------
(* The styled text control (wx.stc), as the editor uses it.  An editor     *)
(* value e is a record with the fields doc (buffer), a (anchor),           *)
(* c (current position), tc (self.timecodes), vis (self.codes_vis) and     *)
(* hv (the text of STYLE_HIDDEN is shown).                                 *)

GetLength(e) == Len(e.doc)

GetCharAt(e, p) == IF p >= 0 /\ p < Len(e.doc) THEN e.doc[p + 1].ch ELSE "NUL"

GetStyleAt(e, p) == IF p >= 0 /\ p < Len(e.doc) THEN e.doc[p + 1].st ELSE STYLE_PLAIN

Clamp(e, p) == Max(0, Min(p, Len(e.doc)))

GetSelectionStart(e) == Min(e.a, e.c)

GetSelectionEnd(e) == Max(e.a, e.c)

GotoPos(e, p) == [e EXCEPT !.a = Clamp(e, p), !.c = Clamp(e, p)]

\* SetSelection(start, end): a negative end is the end of the text, a
\* negative start is the end given
SetSelection(e, s, t) ==
    LET nEnd == IF t < 0 THEN Len(e.doc) ELSE t
        nStart == IF s < 0 THEN nEnd ELSE s
    IN  [e EXCEPT !.a = Clamp(e, nStart), !.c = Clamp(e, nEnd)]

SetCurrentPos(e, p) == [e EXCEPT !.c = Clamp(e, p)]

SetAnchor(e, p) == [e EXCEPT !.a = Clamp(e, p)]

GetTextRange(e, s, t) == [i \in 1..(t - s) |-> e.doc[s + i].ch]

\* a position between the two bytes of a time-code character (UTF-8 buffer)
InsideChar(u, e, p) ==
    u /\ p > 0 /\ GetCharAt(e, p) = "A4" /\ GetCharAt(e, p - 1) = "C2"

MovePositionOutsideChar(u, e, p, dir) ==
    IF InsideChar(u, e, p) THEN (IF dir > 0 THEN p + 1 ELSE p - 1) ELSE p

MatchAt(e, pos, pat) == \A i \in 1..Len(pat) : GetCharAt(e, pos + i - 1) = pat[i]

\* the least and the greatest position of a set of hits, absent where it is empty
FirstOf(hits, absent) ==
    IF hits = {} THEN absent ELSE CHOOSE p \in hits : \A q \in hits : p <= q

LastOf(hits, absent) ==
    IF hits = {} THEN absent ELSE CHOOSE p \in hits : \A q \in hits : p >= q

\* Document::FindText: forward when minPos <= maxPos, else backward; -1 if absent
FindText(u, e, minPos, maxPos, pat) ==
    LET forward == minPos <= maxPos
        inc == IF forward THEN 1 ELSE -1
        n == Len(pat)
        Between(startPos, endPos) ==
            IF forward
            THEN FirstOf({p \in startPos..(endPos - n) :
                            ~InsideChar(u, e, p) /\ MatchAt(e, p, pat)}, -1)
            ELSE LastOf({p \in endPos..(startPos - 1) :
                           ~InsideChar(u, e, p) /\ p + n <= startPos /\ MatchAt(e, p, pat)},
                        -1)
    IN  Between(MovePositionOutsideChar(u, e, minPos, inc),
                MovePositionOutsideChar(u, e, maxPos, inc))

\* positions of the selection after a deletion / an insertion elsewhere
MovePositionForDeletion(p, start, n) ==
    IF p > start THEN (IF p > start + n THEN p - n ELSE start) ELSE p

MovePositionForInsertion(p, start, n) == IF p > start THEN p + n ELSE p

DeleteChars(e, start, n) ==
    [e EXCEPT
       !.doc = SubSeq(e.doc, 1, start) \o SubSeq(e.doc, start + n + 1, Len(e.doc)),
       !.a = MovePositionForDeletion(e.a, start, n),
       !.c = MovePositionForDeletion(e.c, start, n)]

InsertString(e, pos, styled) ==
    [e EXCEPT
       !.doc = SubSeq(e.doc, 1, pos) \o styled \o SubSeq(e.doc, pos + 1, Len(e.doc)),
       !.a = MovePositionForInsertion(e.a, pos, Len(styled)),
       !.c = MovePositionForInsertion(e.c, pos, Len(styled))]

\* ReplaceSelection(text): a read-only buffer refuses the change, the
\* selection is emptied all the same
ReplaceSelection(ro, e, styled) ==
    LET s == GetSelectionStart(e)
        n == GetSelectionEnd(e) - s
    IN  IF ro THEN GotoPos(e, s)
        ELSE GotoPos(InsertString(GotoPos(DeleteChars(e, s, n), s), s, styled),
                     s + Len(styled))

\* ReplaceTarget(text) on the target [ts, te)
ReplaceTarget(ro, e, ts, te, styled) ==
    IF ro THEN e ELSE InsertString(DeleteChars(e, ts, te - ts), ts, styled)

\* InsertText(pos, text): the selection is emptied at the (shifted) caret
InsertText(ro, e, pos, styled) ==
    IF ro THEN GotoPos(e, e.c)
    ELSE LET newCurrent == IF e.c > pos THEN e.c + Len(styled) ELSE e.c
         IN  GotoPos(InsertString(e, pos, styled), newCurrent)

----------------------------------------------------------------------------
(* RichTextEditCtrl: insertion of styled text at the current position      *)

\* InsertStyledText(text): the text goes in at the current position with the
\* given style and the current position moves behind it
InsertStyledText(ro, e, chars, st) ==
    IF ro THEN e
    ELSE LET pos == e.c
         IN  GotoPos(InsertString(e, pos, Styled(chars, st)), pos + Len(chars))

InsertHiddenText(ro, e, chars) == InsertStyledText(ro, e, chars, STYLE_HIDDEN)

----------------------------------------------------------------------------
(* TranscriptEditor *)

\* the text of the search "TIMECODE_CHAR + '<'" and the offset of the data
findstr(u) == TIMECODE_CHAR(u) \o <<"<">>

offset(u) == IF u THEN 3 ELSE 2

\* the text between a time code found at pos and the next ">" (the selection
\* SetSelection(pos + offset, endi) gives), converted by int()
TimeStrAt(u, e, pos) ==
    LET SelectedText(sel) ==
            ParseInt(GetTextRange(sel, GetSelectionStart(sel), GetSelectionEnd(sel)))
    IN  SelectedText(SetSelection(e, pos + offset(u),
                                  FindText(u, e, pos, GetLength(e), <<">">>)))

\* the start_timecode and the end_timecode of get_selected_time_range, from
\* the place the search found a time code at (-1: none)
StartTimecode(u, e, pos) ==
    LET Value(t) == IF t.ok THEN t.v ELSE 0
    IN  IF pos > -1 THEN Value(TimeStrAt(u, e, pos)) ELSE 0

\* an end_timecode that stays 0 when no later time code is found
EndTimecode_Zero(u, e, pos) ==
    LET Value(t) == IF t.ok THEN t.v ELSE 0
    IN  IF pos > -1 THEN Value(TimeStrAt(u, e, pos)) ELSE 0

EndTimecode(u, e, pos) ==
    LET Value(t) == IF t.ok THEN t.v ELSE 0
    IN  IF pos > -1 THEN Value(TimeStrAt(u, e, pos)) ELSE -1

\* get_selected_time_range without its last SetSelection(selstart, selend)
get_selected_time_range_NoRestore(u, e) ==
    LET selstart == GetSelectionStart(e)
        selend == GetSelectionEnd(e)
        e1 == IF selstart > 1 THEN GotoPos(e, selstart - 1) ELSE e
        Left(pos2) ==
            IF pos2 > -1
            THEN SetSelection(e, pos2 + offset(u), FindText(u, e, pos2, GetLength(e), <<">">>))
            ELSE GotoPos(e, selend)
        Range(pos1, pos2) ==
            [e |-> Left(pos2),
             start |-> StartTimecode(u, e, pos1),
             end |-> EndTimecode(u, e, pos2)]
    IN  Range(FindText(u, e1, GetSelectionStart(e1), 0, findstr(u)),
              FindText(u, e, selend, GetLength(e), findstr(u)))

\* get_selected_time_range: [e, start, end]
get_selected_time_range(u, e) ==
    LET selstart == GetSelectionStart(e)
        selend == GetSelectionEnd(e)
        e1 == IF selstart > 1 THEN GotoPos(e, selstart - 1) ELSE e
        Range(pos1, pos2) ==
            [e |-> SetSelection(e, selstart, selend),
             start |-> StartTimecode(u, e, pos1),
             end |-> EndTimecode(u, e, pos2)]
    IN  Range(FindText(u, e1, GetSelectionStart(e1), 0, findstr(u)),
              FindText(u, e, selend, GetLength(e), findstr(u)))

\* the test with the comparison against the next time code left out
TimeCodeAccepted_NoNext(tc, prevTimeCode, timepos, nextTimeCode) ==
    \/ Len(tc) = 0
    \/ prevTimeCode < timepos
    \/ (timepos = 0 /\ prevTimeCode = 0 /\ tc[1] > 0)

\* the test with "<=" for "<" against the previous time code
TimeCodeAccepted_PrevInclusive(tc, prevTimeCode, timepos, nextTimeCode) ==
    \/ Len(tc) = 0
    \/ (prevTimeCode <= timepos /\ (timepos < nextTimeCode \/ nextTimeCode = -1))
    \/ (timepos = 0 /\ prevTimeCode = 0 /\ tc[1] > 0)

\* the test with the time-zero case not looking at the first entry
TimeCodeAccepted_ZeroAlways(tc, prevTimeCode, timepos, nextTimeCode) ==
    \/ Len(tc) = 0
    \/ (prevTimeCode < timepos /\ (timepos < nextTimeCode \/ nextTimeCode = -1))
    \/ (timepos = 0 /\ prevTimeCode = 0)

\* the test that lets a time code in (line 619-620)
TimeCodeAccepted(tc, prevTimeCode, timepos, nextTimeCode) ==
    \/ Len(tc) = 0
    \/ (prevTimeCode < timepos /\ (timepos < nextTimeCode \/ nextTimeCode = -1))
    \/ (timepos = 0 /\ prevTimeCode = 0 /\ tc[1] > 0)

\* the place in self.timecodes the new value is put (lines 632-638), 0-based
RECURSIVE InsertIndex(_, _, _)
InsertIndex(tc, timepos, i) ==
    IF i < Len(tc) /\ tc[i + 1] < timepos THEN InsertIndex(tc, timepos, i + 1) ELSE i

ListInsert(tc, i, v) == SubSeq(tc, 1, i) \o <<v>> \o SubSeq(tc, i + 1, Len(tc))

\* insert_timecode(time_ms): [e, res], res in {"readonly", "inserted", "rejected"}
insert_timecode(u, ro, e, timepos) ==
    LET Insert(e1) ==
            [e |-> [(IF e1.vis = 1
                     THEN InsertHiddenText(ro,
                            InsertStyledText(ro, e1, TIMECODE_CHAR(u), STYLE_TIMECODE),
                            <<"<">> \o FormatInt(timepos) \o <<">">>)
                     ELSE InsertHiddenText(ro, e1,
                            TIMECODE_CHAR(u) \o <<"<">> \o FormatInt(timepos) \o <<">">>))
                    EXCEPT !.tc = ListInsert(e1.tc, InsertIndex(e1.tc, timepos, 0), timepos)],
             res |-> "inserted"]
        Decide(r) ==
            IF TimeCodeAccepted(r.e.tc, r.start, timepos, r.end)
            THEN Insert(r.e)
            ELSE [e |-> r.e, res |-> "rejected"]
    IN  IF ro THEN [e |-> e, res |-> "readonly"]
        ELSE Decide(get_selected_time_range(u, e))

\* cursor_find(text)
cursor_find(u, e, text) ==
    LET Backward(back) ==
            IF back >= 0 THEN GotoPos(e, IF u THEN back + 2 ELSE back) ELSE e
        Forward(pos) ==
            IF pos >= 0 THEN GotoPos(e, IF u THEN pos + 1 ELSE pos)
            ELSE Backward(FindText(u, e, e.c, 0, text))
    IN  Forward(FindText(u, e, e.c, GetLength(e) - 1, text))

\* a styling that writes the character again in the style
SetStyling1_Retype(u, e, pos, st) ==
    InsertString(e, pos, Styled(<<GetCharAt(e, pos)>>, st))

\* StartStyling(pos, 255); SetStyling(1, style): in the UTF-8 buffer the two
\* bytes of a character carry one style
SetStyling1(u, e, pos, st) ==
    LET here == {pos} \cup (IF u /\ GetCharAt(e, pos) = "C2" /\ GetCharAt(e, pos + 1) = "A4"
                            THEN {pos + 1} ELSE {})
    IN  [e EXCEPT !.doc = [i \in 1..Len(e.doc) |->
                             IF (i - 1) \in here THEN [e.doc[i] EXCEPT !.st = st]
                             ELSE e.doc[i]]]

show_all_hidden(e) == [e EXCEPT !.vis = 1, !.hv = TRUE]

hide_all_hidden(e) == [e EXCEPT !.vis = 0, !.hv = FALSE]

\* RestoreCursor with self.cursorPosition = (pos, (selStart, selEnd))
RestoreCursor(e, cp) ==
    SetAnchor(SetCurrentPos(SetCurrentPos(e, cp[1]), cp[2]), cp[3])

CursorPosition(e) == <<e.c, GetSelectionStart(e), GetSelectionEnd(e)>>

\* the loop of changeTimeCodeHiddenStatus, loop times left
RECURSIVE StyleLoop(_, _, _, _)
StyleLoop(u, e, hiddenVal, loop) ==
    LET Style(e1, cp) ==
            StyleLoop(u,
                      SetCurrentPos(SetStyling1(u, e1, cp,
                                                IF hiddenVal THEN STYLE_HIDDEN
                                                ELSE STYLE_TIMECODE),
                                    cp + 1),
                      hiddenVal, loop - 1)
        Found(e1) == Style(e1, IF u /\ e1.c > 0 THEN e1.c - 1 ELSE e1.c)
    IN  IF loop = 0 THEN e
        ELSE Found(cursor_find(u, e, TIMECODE_CHAR(u)))

changeTimeCodeHiddenStatus(u, e, hiddenVal) ==
    LET wereHidden == e.vis = 0
        Hide(e3) == IF wereHidden THEN hide_all_hidden(e3) ELSE e3
        Loop(e2) == Hide(StyleLoop(u, e2, hiddenVal, Len(e2.tc)))
    IN  RestoreCursor(Loop(IF wereHidden THEN show_all_hidden(GotoPos(e, 0))
                           ELSE GotoPos(e, 0)),
                      CursorPosition(e))

show_codes(u, e) == [changeTimeCodeHiddenStatus(u, e, FALSE) EXCEPT !.vis = 1]

hide_codes(u, e) == [changeTimeCodeHiddenStatus(u, e, TRUE) EXCEPT !.vis = 0]

\* load_timecodes: the scan of GetText() for TIMECODE_CHAR + "<", from i on
RECURSIVE ScanTimecodes(_, _, _, _)
ScanTimecodes(u, e, i, acc) ==
    LET find(pat, from) ==
            FirstOf({p \in from..(GetLength(e) - Len(pat)) : MatchAt(e, p, pat)}, -1)
        first == i + offset(u)
        Text(stop) == IF stop > first THEN GetTextRange(e, first, stop) ELSE <<>>
        Until(endi) == Text(IF endi >= 0 THEN endi ELSE GetLength(e) - 1)
        Add(t) == IF t.ok THEN Append(acc, t.v) ELSE acc
    IN  IF i < 0 THEN acc
        ELSE ScanTimecodes(u, e, find(findstr(u), i + 1),
                           Add(ParseInt(Until(find(<<">">>, i)))))

load_timecodes(u, e) ==
    [e EXCEPT !.tc =
       ScanTimecodes(u, e,
                     FirstOf({p \in 0..(GetLength(e) - Len(findstr(u))) :
                                MatchAt(e, p, findstr(u))}, -1),
                     e.tc)]

\* the first position q >= p with GetCharAt(q) = c, and the last position
\* q <= p with GetCharAt(q) = c; NoPos when the scan runs off the buffer (the
\* loop of the source then never ends)
NoPos == 0 - 1

ScanRight(e, p, c) ==
    FirstOf({q \in p..(GetLength(e) - 1) : GetCharAt(e, q) = c}, NoPos)

ScanLeft(e, p, c) ==
    LastOf({q \in 0..p : GetCharAt(e, q) = c}, NoPos)

\* "is the time-code character at p" as OnKeyPress tests it
TimeCodeCharAt(u, e, p) ==
    IF u THEN GetCharAt(e, p) = "C2" /\ GetCharAt(e, p + 1) = "A4"
    ELSE GetCharAt(e, p) = "A4"

\* CheckTimeCodesAtSelectionBoundaries: [e, hang]
CheckTimeCodesAtSelectionBoundaries(u, e) ==
    LET selStart == GetSelectionStart(e)
        selEnd == GetSelectionEnd(e)
        evalStart ==
            IF u THEN \/ (GetCharAt(e, selStart - 1) = "C2" /\ GetCharAt(e, selStart) = "A4")
                      \/ (GetCharAt(e, selStart - 2) = "C2" /\ GetCharAt(e, selStart - 1) = "A4")
            ELSE GetCharAt(e, selStart - 1) = "A4" /\ GetCharAt(e, selStart) = "<"
        moveStart == selStart > 0 /\ evalStart
        evalEnd ==
            IF u THEN \/ (GetCharAt(e, selEnd - 1) = "C2" /\ GetCharAt(e, selEnd) = "A4")
                      \/ (GetCharAt(e, selEnd) = "C2" /\ GetCharAt(e, selEnd + 1) = "A4")
                      \/ (GetCharAt(e, selEnd - 2) = "C2" /\ GetCharAt(e, selEnd - 1) = "A4")
            ELSE GetCharAt(e, selEnd - 1) = "A4" /\ GetCharAt(e, selEnd) = "<"
        moveEnd == selEnd > 0 /\
                   (evalEnd \/ (GetCharAt(e, selEnd - 1) = ">" /\
                                GetStyleAt(e, selEnd - 1) = STYLE_HIDDEN))
        endChar == IF u THEN "C2" ELSE "A4"
        \* gt: while chr(GetCharAt(selStart - 1)) != '>': selStart += 1
        \* lt: while GetCharAt(selEnd) != endChar: selEnd -= 1
        Selection(gt, lt) ==
            IF (moveStart /\ gt = NoPos) \/ (moveEnd /\ lt = NoPos)
            THEN [e |-> e, hang |-> TRUE]
            ELSE IF moveStart \/ moveEnd
                 THEN [e |-> SetSelection(e, IF moveStart THEN gt + 1 ELSE selStart,
                                             IF moveEnd THEN lt ELSE selEnd),
                       hang |-> FALSE]
                 ELSE [e |-> e, hang |-> FALSE]
        curPos == e.c
        evaluation ==
            IF u THEN \/ (GetCharAt(e, curPos - 1) = "C2" /\ GetCharAt(e, curPos) = "A4")
                      \/ (GetCharAt(e, curPos - 2) = "C2" /\ GetCharAt(e, curPos - 1) = "A4")
            ELSE curPos > 0 /\ GetCharAt(e, curPos - 1) = "A4" /\ GetCharAt(e, curPos) = "<"
        Cursor(gt) ==
            IF gt = NoPos THEN [e |-> e, hang |-> TRUE]
            ELSE [e |-> GotoPos(e, gt + 1), hang |-> FALSE]
    IN  IF selStart # selEnd
        THEN Selection(ScanRight(e, selStart - 1, ">"), ScanLeft(e, selEnd, endChar))
        ELSE IF ~evaluation THEN [e |-> e, hang |-> FALSE]
             ELSE Cursor(ScanRight(e, curPos - 1, ">"))

\* list.index(v), 0-based; NoPos where Python raises ValueError
ListIndex(tc, v) ==
    LET ZeroBased(i) == IF i = NoPos THEN NoPos ELSE i - 1
    IN  ZeroBased(FirstOf({i \in 1..Len(tc) : tc[i] = v}, NoPos))

\* tc[:i] + tc[j:]
ListCut(tc, i, j) == SubSeq(tc, 1, Min(i, Len(tc))) \o SubSeq(tc, Max(j, 0) + 1, Len(tc))

\* The result of a key handler: the editor after it, res ("skip": nothing
\* done here, "done", "denied", "error": an exception left the handler,
\* "hang": a loop that does not end), whether the question dialog was shown
\* and its answer (dlg), and whether event.Skip() was called
Handled(e, res, dlg, skip) == [e |-> e, res |-> res, dlg |-> dlg, skip |-> skip]

\* DELETE with no selection, blockSkip not set when the answer is No
OnKeyPressDeleteChar_NoBlock(u, ro, e, answer) ==
    LET curPos == e.c
        Remove(r, e3, index) ==
            IF index = NoPos THEN Handled(e3, "error", "yes", FALSE)
            ELSE Handled([hide_all_hidden(
                            SetCurrentPos([e3 EXCEPT !.tc = ListCut(e3.tc, index, index + 1)],
                                          curPos))
                          EXCEPT !.vis = r.e.vis],
                         "done", "yes", TRUE)
        Replace(r, e3) == Remove(r, e3, ListIndex(e3.tc, r.end))
        Select(r, e2, selEnd) ==
            IF selEnd = NoPos THEN Handled(e2, "hang", "yes", FALSE)
            ELSE Replace(r, ReplaceSelection(ro, SetSelection(e2, curPos, selEnd), <<>>))
        Show(r, e2) == Select(r, e2, ScanRight(e2, curPos + 1, ">"))
        Prompt(r) ==
            IF answer # "yes" THEN Handled(r.e, "denied", "no", TRUE)
            ELSE Show(r, show_all_hidden(r.e))
    IN  IF ~ro /\ TimeCodeCharAt(u, e, curPos)
        THEN Prompt(get_selected_time_range(u, e))
        ELSE Handled(e, "skip", "none", TRUE)

\* OnKeyPress, DELETE with no selection (lines 1190-1245)
OnKeyPressDeleteChar(u, ro, e, answer) ==
    LET curPos == e.c
        Remove(r, e3, index) ==
            IF index = NoPos THEN Handled(e3, "error", "yes", FALSE)
            ELSE Handled([hide_all_hidden(
                            SetCurrentPos([e3 EXCEPT !.tc = ListCut(e3.tc, index, index + 1)],
                                          curPos))
                          EXCEPT !.vis = r.e.vis],
                         "done", "yes", TRUE)
        Replace(r, e3) == Remove(r, e3, ListIndex(e3.tc, r.end))
        Select(r, e2, selEnd) ==
            IF selEnd = NoPos THEN Handled(e2, "hang", "yes", FALSE)
            ELSE Replace(r, ReplaceSelection(ro, SetSelection(e2, curPos, selEnd), <<>>))
        Show(r, e2) == Select(r, e2, ScanRight(e2, curPos + 1, ">"))
        Prompt(r) ==
            IF answer # "yes" THEN Handled(r.e, "denied", "no", FALSE)
            ELSE Show(r, show_all_hidden(r.e))
    IN  IF ~ro /\ TimeCodeCharAt(u, e, curPos)
        THEN Prompt(get_selected_time_range(u, e))
        ELSE Handled(e, "skip", "none", TRUE)

\* the index bookkeeping after a selection was deleted, DELETE (lines 1277-1294)
DeleteSelectionIndexes(u, e) ==
    LET Cut(r, startIndex, endIndex) ==
            IF startIndex = NoPos THEN [e |-> r.e, ok |-> FALSE]
            ELSE [e |-> [r.e EXCEPT !.tc = ListCut(r.e.tc, startIndex + 1,
                                                   IF endIndex # NoPos THEN endIndex
                                                   ELSE IF r.end = -1
                                                           \/ r.end >= r.e.tc[Len(r.e.tc)]
                                                        THEN Len(r.e.tc)
                                                        ELSE startIndex + 1)],
                  ok |-> TRUE]
        Indexes(r) == Cut(r, ListIndex(r.e.tc, r.start), ListIndex(r.e.tc, r.end))
    IN  Indexes(get_selected_time_range(u, e))

\* the index bookkeeping after a selection was deleted, BACKSPACE (lines 1416-1421)
BackspaceSelectionIndexes(u, e) ==
    LET Cut(r, startIndex, endIndex) ==
            IF startIndex = NoPos \/ endIndex = NoPos THEN [e |-> r.e, ok |-> FALSE]
            ELSE [e |-> [r.e EXCEPT !.tc = ListCut(r.e.tc, startIndex + 1, endIndex)],
                  ok |-> TRUE]
        Indexes(r) == Cut(r, ListIndex(r.e.tc, r.start), ListIndex(r.e.tc, r.end))
    IN  Indexes(get_selected_time_range(u, e))

\* OnKeyPress, DELETE or BACKSPACE with a selection (lines 1247-1308, 1386-1435)
OnKeyPressSelection(u, ro, e, answer, key) ==
    LET selStart == GetSelectionStart(e)
        selEnd == GetSelectionEnd(e)
        Finish(x) ==
            IF ~x.ok THEN Handled(x.e, "error", "yes", FALSE)
            ELSE Handled([hide_all_hidden(SetCurrentPos(x.e, selStart)) EXCEPT !.vis = e.vis],
                         "done", "yes", FALSE)
        Indexes(e2) ==
            Finish(IF key = "DELETE" THEN DeleteSelectionIndexes(u, e2)
                   ELSE BackspaceSelectionIndexes(u, e2))
    IN  IF FindText(u, e, selStart, selEnd, TIMECODE_CHAR(u)) = -1
        THEN Handled(e, "skip", "none", TRUE)
        ELSE IF answer # "yes" THEN Handled(e, "denied", "no", FALSE)
        ELSE Indexes(ReplaceTarget(ro, show_all_hidden(e), selStart, selEnd, <<>>))

\* OnKeyPress, BACKSPACE with no selection (lines 1315-1384)
OnKeyPressBackspaceChar(u, ro, e, answer) ==
    LET curPos == e.c
        Remove(r, e3, index) ==
            IF index = NoPos THEN Handled(e3, "error", "yes", FALSE)
            ELSE Handled([hide_all_hidden([e3 EXCEPT !.tc = ListCut(e3.tc, index, index + 1)])
                          EXCEPT !.vis = r.e.vis],
                         "done", "yes", FALSE)
        Replace(r, e3) == Remove(r, e3, ListIndex(e3.tc, r.start))
        Select(r, e2, found) ==
            IF found = NoPos THEN Handled(e2, "hang", "yes", FALSE)
            ELSE Replace(r, ReplaceSelection(ro,
                              SetSelection(e2, IF u THEN found - 1 ELSE found, curPos),
                              <<>>))
        Show(r, e2) == Select(r, e2, ScanLeft(e2, curPos, "A4"))
        Prompt(r) ==
            IF answer # "yes" THEN Handled(r.e, "denied", "no", FALSE)
            ELSE Show(r, show_all_hidden(r.e))
    IN  IF ~ro /\ curPos > 0 /\ GetCharAt(e, curPos - 1) = ">"
           /\ GetStyleAt(e, curPos - 1) = STYLE_HIDDEN
        THEN Prompt(get_selected_time_range(u, e))
        ELSE Handled(e, "skip", "none", TRUE)

\* OnChar (lines 1445-1478)
OnChar(u, ro, e, answer, ch) ==
    LET selStart == GetSelectionStart(e)
        selEnd == GetSelectionEnd(e)
    IN  IF ~ro /\ selStart # selEnd
           /\ FindText(u, e, selStart, selEnd, TIMECODE_CHAR(u)) # -1
        THEN IF answer = "yes"
             THEN Handled(GotoPos(ReplaceTarget(ro, e, selStart, selEnd,
                                                Styled(<<ch>>, STYLE_PLAIN)),
                                  selStart + 1),
                          "done", "yes", FALSE)
             ELSE Handled(e, "denied", "no", FALSE)
        ELSE Handled(e, "skip", "none", TRUE)

----------------------------------------------------------------------------
(* The text control's own handling of a key the editor passes on *)

\* the bytes of the character at p
LenChar(u, e, p) == IF u /\ GetCharAt(e, p) = "C2" /\ GetCharAt(e, p + 1) = "A4" THEN 2 ELSE 1

\* ClearSelection that only moves the caret
ClearSelection_KeepText(ro, e) == GotoPos(e, GetSelectionStart(e))

ClearSelection(ro, e) ==
    LET s == GetSelectionStart(e)
    IN  GotoPos(IF ro THEN e ELSE DeleteChars(e, s, GetSelectionEnd(e) - s), s)

\* SCI_CLEAR
DefaultDelete(u, ro, e) ==
    IF e.a # e.c THEN ClearSelection(ro, e)
    ELSE IF ro \/ e.c >= GetLength(e) THEN e
    ELSE DeleteChars(e, e.c, LenChar(u, e, e.c))

\* SCI_DELETEBACK
DefaultBackspace(u, ro, e) ==
    IF e.a # e.c THEN ClearSelection(ro, e)
    ELSE IF ro \/ e.c = 0 THEN e
    ELSE LET n == IF InsideChar(u, e, e.c - 1) THEN 2 ELSE 1
         IN  DeleteChars(e, e.c - n, n)

\* a typed character
DefaultChar(ro, e, ch) ==
    LET Type(e1) ==
            IF ro THEN e1
            ELSE GotoPos(InsertString(e1, e1.c, Styled(<<ch>>, STYLE_PLAIN)), e1.c + 1)
    IN  Type(ClearSelection(ro, e))

----------------------------------------------------------------------------
(* What the document holds, read independently of the editor's own scans *)

\* a well-formed marker starts at p: time-code character, "<", digits, ">"
MarkerEnd(u, d, p) ==
    LET e == [doc |-> d]
        first == p + offset(u)
        gt == ScanRight(e, first, ">")
    IN  IF TimeCodeCharAt(u, e, p) /\ GetCharAt(e, first - 1) = "<" /\ gt # NoPos
           /\ gt > first /\ AllDigits(GetTextRange(e, first, gt))
        THEN gt + 1 ELSE NoPos

MarkerTime(u, d, p) ==
    ParseNat(GetTextRange([doc |-> d], p + offset(u), MarkerEnd(u, d, p) - 1), 0)

\* the start positions of the markers of the document
MarkerStarts(u, d) == {p \in 0..(Len(d) - 1) : MarkerEnd(u, d, p) # NoPos}

RECURSIVE SortedSeq(_)
SortedSeq(S) == IF S = {} THEN <<>>
                ELSE LET m == CHOOSE x \in S : \A y \in S : x <= y
                     IN  <<m>> \o SortedSeq(S \ {m})

\* the times of the markers in document order
DocTimes(u, d) ==
    LET ps == SortedSeq(MarkerStarts(u, d))
    IN  [i \in 1..Len(ps) |-> MarkerTime(u, d, ps[i])]

\* the number of markers that start before position p
MarkersBefore(u, d, p) == Cardinality({q \in MarkerStarts(u, d) : q < p})

\* p lies strictly inside a marker
InsideMarker(u, d, p) ==
    \E q \in MarkerStarts(u, d) : q < p /\ p < MarkerEnd(u, d, q)

\* every character of the document is a letter or lies in a marker
WellFormed(u, d) ==
    \A p \in 0..(Len(d) - 1) :
        \/ d[p + 1].ch \in {"a", "x"}
        \/ \E q \in MarkerStarts(u, d) : q <= p /\ p < MarkerEnd(u, d, q)

\* the time of the last marker that ends at or before p (0: none) and of the
\* first marker that starts at or after p (-1: none)
PrevTime(u, d, p) ==
    LET before == {q \in MarkerStarts(u, d) : MarkerEnd(u, d, q) <= p}
    IN  IF before = {} THEN 0
        ELSE MarkerTime(u, d, CHOOSE q \in before : \A r \in before : r <= q)

NextTime(u, d, p) ==
    LET after == {q \in MarkerStarts(u, d) : q >= p}
    IN  IF after = {} THEN -1
        ELSE MarkerTime(u, d, CHOOSE q \in after : \A r \in after : q <= r)

NonDecreasing(s) == \A i \in 1..(Len(s) - 1) : s[i] <= s[i + 1]

----------------------------------------------------------------------------
(* State and steps *)

Ed == [doc |-> doc, a |-> anchor, c |-> curpos, tc |-> timecodes,
       vis |-> codes_vis, hv |-> hidden_vis]

\* the editor e put in place
SetEditor(e) ==
    /\ doc' = e.doc
    /\ anchor' = e.a
    /\ curpos' = e.c
    /\ timecodes' = e.tc
    /\ codes_vis' = e.vis
    /\ hidden_vis' = e.hv

\* the editor e put in place by a handler: a change of the text leaves the
\* save point
Commit(e) ==
    /\ SetEditor(e)
    /\ GetModify' = (GetModify \/ Chars(e.doc) # Chars(doc))

\* what is remembered of a step: the operation, its argument (the time of an
\* insert_timecode, the length of the selection a key met), how it ended, the
\* answer to the question dialog ("none": no dialog) and whether the key
\* event went on to the control
Outcome(op, arg, res, dlg, skip) ==
    [op |-> op, arg |-> arg, res |-> res, dlg |-> dlg, skip |-> skip]

Running == last.res # "hang"

\* one more event of the user
Event == steps < MaxSteps /\ steps' = steps + 1

Init ==
    /\ unicode \in BOOLEAN
    /\ doc = <<>>
    /\ anchor = 0
    /\ curpos = 0
    /\ codes_vis = 0
    /\ hidden_vis = FALSE
    /\ read_only = TRUE
    /\ timecodes = <<>>
    /\ TranscriptObj_text = <<>>
    /\ TranscriptObj = FALSE
    /\ current_timecode = 0 - 1
    /\ GetModify = FALSE
    /\ isLocked = FALSE
    /\ NoLogon
    /\ steps = 0
    /\ last = Outcome("init", 0, "done", "none", FALSE)

\* the stored transcripts: a token is a time (a marker) or TextToken (a letter)
TextToken == 0 - 1

Transcripts == UNION {[1..k -> Times \cup {TextToken}] : k \in 0..MaxLoad}

RECURSIVE BufferContents(_, _)
BufferContents(u, s) ==
    IF s = <<>> THEN <<>>
    ELSE (IF Head(s) = TextToken THEN Styled(<<"a">>, STYLE_PLAIN)
          ELSE Styled(TIMECODE_CHAR(u) \o <<"<">> \o FormatInt(Head(s)) \o <<">">>,
                      STYLE_HIDDEN))
         \o BufferContents(u, Tail(s))

\* ClearDoc (lines 983-994)
ClearDoc(e) == [doc |-> <<>>, a |-> 0, c |-> 0, tc |-> <<>>, vis |-> 0, hv |-> e.hv]

\* a load_transcript that ends with the time codes hidden
load_transcript_CodesHidden(u, e, contents) ==
    LET e1 == [ClearDoc(e) EXCEPT !.doc = contents, !.hv = FALSE]
        e2 == GotoPos(load_timecodes(u, GotoPos(e1, Len(contents))), 0)
    IN  hide_codes(u, e2)

\* load_transcript, pickled data (lines 114-245, 340-359)
load_transcript(u, e, contents) ==
    LET e1 == [ClearDoc(e) EXCEPT !.doc = contents, !.hv = FALSE]
        e2 == GotoPos(load_timecodes(u, GotoPos(e1, Len(contents))), 0)
    IN  show_codes(u, e2)

\* ControlObject.LoadTranscript: a stored transcript is put in the editor
LoadTranscript ==
    /\ Running
    /\ Event
    /\ ~TranscriptObj
    /\ \E s \in Transcripts :
         /\ SetEditor(load_transcript(unicode, Ed, BufferContents(unicode, s)))
         /\ TranscriptObj_text' = BufferContents(unicode, s)
    /\ GetModify' = FALSE
    /\ isLocked' = FALSE
    /\ last' = Outcome("load_transcript", 0, "done", "none", FALSE)
    /\ read_only' = TRUE
    /\ TranscriptObj' = TRUE
    /\ current_timecode' = 0 - 1
    /\ UNCHANGED <<unicode, logonVars>>

\* TranscriptToolbar.OnReadOnlySelect, the tool switched to editing
OnReadOnlySelect ==
    /\ Running
    /\ Event
    /\ TranscriptObj
    /\ read_only
    /\ read_only' = FALSE
    /\ last' = Outcome("OnReadOnlySelect", 0, "done", "none", FALSE)
    /\ UNCHANGED <<unicode, doc, anchor, curpos, codes_vis, hidden_vis, timecodes,
                   TranscriptObj, current_timecode, GetModify, TranscriptObj_text,
                   isLocked, logonVars>>

\* the positions the mouse can put the caret at: not between the bytes of a
\* character and, unless the hidden text is shown, not inside a run of it
MousePositions(u, d, hv) ==
    {p \in 0..Len(d) :
        /\ ~InsideChar(u, [doc |-> d], p)
        /\ \/ hv
           \/ ~(p > 0 /\ p < Len(d) /\ d[p].st = STYLE_HIDDEN /\ d[p + 1].st = STYLE_HIDDEN)}

\* OnLeftUp (lines 1689-1735) after a click (pa = pc) or a drag between pa and
\* pc, with the deferred PositionAfter / SetSelectionAfter; the handler reads
\* the selection by its start and end, so the direction of the drag is not
\* told apart
LeftUp(pa, pc) ==
    LET Place(k, r) ==
            IF GetSelectionStart(k.e) = GetSelectionEnd(k.e)
            THEN GotoPos(r.e, k.e.c)
            ELSE SetAnchor(SetCurrentPos(r.e, GetSelectionStart(k.e)), GetSelectionEnd(k.e))
        Checked(k) ==
            /\ Commit(IF k.hang THEN k.e
                      ELSE Place(k, get_selected_time_range(unicode, k.e)))
            /\ last' = Outcome("OnLeftUp", 0, IF k.hang THEN "hang" ELSE "done", "none", FALSE)
    IN  /\ Checked(CheckTimeCodesAtSelectionBoundaries(unicode, SetSelection(Ed, pa, pc)))
        /\ UNCHANGED <<unicode, read_only, TranscriptObj, current_timecode, TranscriptObj_text,
                     isLocked, logonVars>>

OnLeftUp ==
    /\ Running
    /\ Event
    /\ \E pa, pc \in MousePositions(unicode, doc, hidden_vis) :
         pa <= pc /\ LeftUp(pa, pc)

\* insert_timecode(time_ms), from CTRL-T or the menu
CallInsertTimecode(t) ==
    LET Returned(r) ==
            /\ Commit(r.e)
            /\ last' = Outcome("insert_timecode", t, r.res, "none", FALSE)
    IN  /\ Returned(insert_timecode(unicode, read_only, Ed, t))
        /\ UNCHANGED <<unicode, read_only, TranscriptObj, current_timecode, TranscriptObj_text,
                     isLocked, logonVars>>

InsertTimecode ==
    /\ Running
    /\ Event
    /\ \E t \in Times : CallInsertTimecode(t)

\* the control's own handling of a key
DefaultKey(op, e) ==
    CASE op = "DELETE" -> DefaultDelete(unicode, read_only, e)
      [] op = "BACK" -> DefaultBackspace(unicode, read_only, e)
      [] OTHER -> DefaultChar(read_only, e, "x")

\* a key event: the editor's handler, then the control's when it is skipped
KeyEvent(op, h) ==
    /\ Commit(IF h.skip THEN DefaultKey(op, h.e) ELSE h.e)
    /\ last' = Outcome(op, GetSelectionEnd(Ed) - GetSelectionStart(Ed), h.res, h.dlg,
                       h.skip)
    /\ UNCHANGED <<unicode, read_only, TranscriptObj, current_timecode, TranscriptObj_text,
                     isLocked, logonVars>>

KeyDelete ==
    /\ Running
    /\ Event
    /\ \E answer \in {"yes", "no"} :
         KeyEvent("DELETE",
                  IF anchor = curpos
                  THEN OnKeyPressDeleteChar(unicode, read_only, Ed, answer)
                  ELSE OnKeyPressSelection(unicode, read_only, Ed, answer, "DELETE"))

KeyBackspace ==
    /\ Running
    /\ Event
    /\ \E answer \in {"yes", "no"} :
         KeyEvent("BACK",
                  IF anchor = curpos
                  THEN OnKeyPressBackspaceChar(unicode, read_only, Ed, answer)
                  ELSE OnKeyPressSelection(unicode, read_only, Ed, answer, "BACK"))

KeyChar ==
    /\ Running
    /\ Event
    /\ \E answer \in {"yes", "no"} :
         KeyEvent("CHAR", OnChar(unicode, read_only, Ed, answer, "x"))

\* TranscriptToolbar.OnShowHideCodes
ShowHideCodes(show) ==
    /\ Commit(IF show THEN show_codes(unicode, Ed) ELSE hide_codes(unicode, Ed))
    /\ last' = Outcome(IF show THEN "show_codes" ELSE "hide_codes",
                       0, "done", "none", FALSE)
    /\ UNCHANGED <<unicode, read_only, TranscriptObj, current_timecode, TranscriptObj_text,
                     isLocked, logonVars>>

OnShowHideCodes ==
    /\ Running
    /\ Event
    /\ TranscriptObj
    /\ \E show \in BOOLEAN : ShowHideCodes(show)

Next ==
    \/ LoadTranscript
    \/ OnReadOnlySelect
    \/ OnLeftUp
    \/ InsertTimecode
    \/ KeyDelete
    \/ KeyBackspace
    \/ KeyChar
    \/ OnShowHideCodes

Spec == Init /\ [][Next]_vars

----------------------------------------------------------------------------
(* Insertions alone: an empty document that is being edited, the caret put *)
(* somewhere by a click, the codes shown or hidden, insert_timecode called *)

InitInsert ==
    /\ unicode \in BOOLEAN
    /\ doc = <<>>
    /\ anchor = 0
    /\ curpos = 0
    /\ codes_vis \in {0, 1}
    /\ hidden_vis = FALSE
    /\ read_only = FALSE
    /\ timecodes = <<>>
    /\ TranscriptObj_text = <<>>
    /\ TranscriptObj = TRUE
    /\ current_timecode = 0 - 1
    /\ GetModify = FALSE
    /\ isLocked = FALSE
    /\ NoLogon
    /\ steps = 0
    /\ last = Outcome("init", 0, "done", "none", FALSE)

ClickAtCursor ==
    /\ Running
    /\ UNCHANGED steps
    /\ \E p \in MousePositions(unicode, doc, hidden_vis) : LeftUp(p, p)

InsertAtCursor ==
    /\ Running
    /\ UNCHANGED steps
    /\ \E t \in 0..MaxInsertTime : CallInsertTimecode(t)

ToggleCodes ==
    /\ Running
    /\ UNCHANGED steps
    /\ \E show \in BOOLEAN : ShowHideCodes(show)

NextInsert == ClickAtCursor \/ InsertAtCursor \/ ToggleCodes

SpecInsert == InitInsert /\ [][NextInsert]_vars

----------------------------------------------------------------------------
(* Properties *)

KeyOps == {"DELETE", "BACK", "CHAR"}

Completed == last.res \in {"done", "denied", "skip", "inserted", "rejected", "readonly"}

\* self.timecodes is what the document holds
InSync == timecodes = DocTimes(unicode, doc)

\* the caret, with no selection, outside every marker of a well-formed document
AtCursor == anchor = curpos /\ WellFormed(unicode, doc) /\ ~InsideMarker(unicode, doc, curpos)

RemoveAt(s, i) == SubSeq(s, 1, i - 1) \o SubSeq(s, i + 1, Len(s))

SameSelection == /\ Min(anchor', curpos') = Min(anchor, curpos)
                 /\ Max(anchor', curpos') = Max(anchor, curpos)

\* C1: once a transcript is loaded, after every operation that ran to its
\* end self.timecodes equals, entry for entry, the times of the markers of the
\* document in document order.
C1_IndexMatchesDocument == (TranscriptObj /\ Completed) => InSync

C4_RejectedChangesNothing ==
    [][(last'.op = "insert_timecode" /\ last'.res = "rejected")
         => /\ doc' = doc
            /\ timecodes' = timecodes
            /\ codes_vis' = codes_vis
            /\ hidden_vis' = hidden_vis
            /\ SameSelection]_vars

\* C4's case: a call made with a selection in a document that has markers
\* was turned down
C4_Witness ==
    /\ last.op = "insert_timecode"
    /\ last.res = "rejected"
    /\ anchor # curpos
    /\ Len(DocTimes(unicode, doc)) > 0

\* C5: an insert_timecode that succeeds at a caret with k markers before it,
\* in a document whose index matches it, puts the new time at index k of
\* self.timecodes, whatever the order of the times already there.
C5_PlacedAtDocumentPosition ==
    [][(last'.op = "insert_timecode" /\ last'.res = "inserted" /\ AtCursor /\ InSync)
         => timecodes' = ListInsert(timecodes, MarkersBefore(unicode, doc, curpos),
                                    last'.arg)]_vars

\* C6 as stated: insert_timecode(0) with the caret at the very start of the
\* document is let in when the first marker there has time 0.
C6_ZeroAcceptedBeforeZero ==
    [][(/\ last'.op = "insert_timecode" /\ ~read_only /\ last'.arg = 0
        /\ anchor = 0 /\ curpos = 0
        /\ AtCursor /\ InSync
        /\ Len(timecodes) > 0 /\ timecodes[1] = 0)
         => doc' # doc]_vars

\* C6 amended: insert_timecode(0) with the caret at the very start of a
\* document whose index is not empty is let in exactly when the first entry
\* of the index is above 0; before a first marker of time 0 it is turned down.
C6_ZeroAcceptedBeforeLater ==
    [][(/\ last'.op = "insert_timecode" /\ ~read_only /\ last'.arg = 0
        /\ anchor = 0 /\ curpos = 0
        /\ Len(timecodes) > 0)
         => ((doc' # doc) <=> timecodes[1] > 0)]_vars

\* C6's case: time 0 was put in at the very start, before a marker of a
\* later time
C6_Witness ==
    /\ last.op = "insert_timecode"
    /\ last.res = "inserted"
    /\ last.arg = 0
    /\ Len(DocTimes(unicode, doc)) >= 2
    /\ DocTimes(unicode, doc)[1] = 0
    /\ DocTimes(unicode, doc)[2] > 0
    /\ curpos = MarkerEnd(unicode, doc, 0)
    /\ InSync

\* C7: a DELETE key, a BACKSPACE key or a typed character takes a marker out
\* of the document only when the question dialog was shown and answered Yes.
C7_NoSilentLoss ==
    [][(last'.op \in KeyOps /\
        Len(DocTimes(unicode, doc')) < Len(DocTimes(unicode, doc)))
         => last'.dlg = "yes"]_vars

\* C8: when the question about deleting a marker is answered No, the document
\* and self.timecodes stay as they are and the key event does not go on to
\* the control.
C8_DeniedChangesNothing ==
    [][(last'.op \in KeyOps /\ last'.dlg = "no")
         => (doc' = doc /\ timecodes' = timecodes /\ ~last'.skip)]_vars

\* C8's case: DELETE before a marker while editing, answered No, the marker
\* still at the caret
C8_Witness ==
    /\ last.op = "DELETE"
    /\ last.dlg = "no"
    /\ ~read_only
    /\ anchor = curpos
    /\ MarkerEnd(unicode, doc, curpos) # NoPos

\* C9: a confirmed DELETE right before a marker, or BACKSPACE right after
\* one, in a document whose index matches it, takes out of self.timecodes the
\* one entry at that marker's place and leaves the others as they are.
C9_RemovesEntryAtMarker ==
    [][(/\ last'.op \in {"DELETE", "BACK"} /\ last'.dlg = "yes"
        /\ AtCursor /\ InSync)
         => timecodes' =
              RemoveAt(timecodes,
                       IF last'.op = "DELETE"
                       THEN MarkersBefore(unicode, doc, curpos) + 1
                       ELSE MarkersBefore(unicode, doc, curpos))]_vars

\* C10: after the whole handling of a DELETE or BACKSPACE key in a document
\* of letters and complete markers, the document again holds only letters and
\* complete markers.
C10_NoFragments ==
    [][(last'.op \in {"DELETE", "BACK"} /\ last'.res # "hang"
        /\ WellFormed(unicode, doc))
         => WellFormed(unicode, doc')]_vars

----------------------------------------------------------------------------
(* Loading: pickled data and plain text, then the first edits               *)

\* the greatest number of items of a stored transcript that is loaded
MaxStored == 3
\* the greatest time of a marker of a stored transcript
MaxStoredTime == 2
\* the greatest time insert_timecode is asked for after a load
MaxCodecTime == 11

\* a marker of a stored transcript whose data is empty
BadToken == 0 - 2

StoredTranscripts ==
    UNION {[1..k -> (0..MaxStoredTime) \cup {TextToken, BadToken}] : k \in 0..MaxStored}

\* the styled buffer of a stored transcript (pickled data)
RECURSIVE StoredBuffer(_, _)
StoredBuffer(u, s) ==
    IF s = <<>> THEN <<>>
    ELSE (IF Head(s) = BadToken
          THEN Styled(TIMECODE_CHAR(u) \o <<"<", ">">>, STYLE_HIDDEN)
          ELSE BufferContents(u, <<Head(s)>>))
         \o StoredBuffer(u, Tail(s))

\* the bytes of a stored transcript in plain text, UTF-8 or not
RECURSIVE TextFile(_, _)
TextFile(utf8, s) ==
    IF s = <<>> THEN <<>>
    ELSE (CASE Head(s) = TextToken -> <<"a">>
            [] Head(s) = BadToken -> TIMECODE_CHAR(utf8) \o <<"<", ">">>
            [] OTHER -> TIMECODE_CHAR(utf8) \o <<"<">> \o FormatInt(Head(s)) \o <<">">>)
         \o TextFile(utf8, Tail(s))

\* load_transcript, plain text: chr(194) + chr(164) becomes chr(164)
RECURSIVE DropLeadBytes(_)
DropLeadBytes(text) ==
    IF text = <<>> THEN <<>>
    ELSE IF Head(text) = "C2" /\ Len(text) > 1 /\ text[2] = "A4"
         THEN DropLeadBytes(Tail(text))
         ELSE <<Head(text)>> \o DropLeadBytes(Tail(text))

\* AddText(text): the text goes in at the current position in the default
\* style and the current position moves behind it
AddText(e, chars) == InsertStyledText(FALSE, e, chars, STYLE_PLAIN)

\* load_transcript, plain text: the loop over the text, [e, ok]; ok is FALSE
\* where int(timeval) raises ValueError
RECURSIVE ImportText(_, _, _)
ImportText(u, e, text) ==
    LET Pos(t, c) == FirstOf({i \in 0..(Len(t) - 1) : t[i + 1] = c}, -1)
        From(t, k) == SubSeq(t, k + 1, Len(t))
        Upto(t, k) == SubSeq(t, 1, IF k >= 0 THEN k ELSE Len(t) - 1)
        Marker(e1, timeval, rest) ==
            IF timeval.ok
            THEN ImportText(u, insert_timecode(u, FALSE, e1, timeval.v).e, rest)
            ELSE [e |-> e1, ok |-> FALSE]
        Data(e1, t, gt) == Marker(e1, ParseInt(Upto(t, gt)), From(t, gt + 1))
        Rest(e1, t) == Data(e1, t, Pos(t, ">"))
        Chunk(k) ==
            IF k >= 0 THEN Rest(AddText(e, SubSeq(text, 1, k)), From(text, k + 2))
            ELSE [e |-> AddText(e, text), ok |-> TRUE]
    IN  IF text = <<>> THEN [e |-> e, ok |-> TRUE]
        ELSE Chunk(Pos(text, "A4"))

\* save_transcript
save_transcript(u, e) ==
    RestoreCursor(IF e.vis = 1 THEN show_codes(u, hide_codes(u, e)) ELSE e,
                  CursorPosition(e))

\* load_transcript, plain text: [e, res], res is "error" where the exception
\* of int(timeval) ends the call and "SaveError" where db_save raises in the
\* save that converts the transcript, the record locked
load_transcript_text(u, e, text, db_ok) ==
    LET Loaded(r) ==
            IF ~r.ok THEN [e |-> r.e, res |-> "error"]
            ELSE IF ~db_ok
            THEN [e |-> IF r.e.vis = 1 THEN hide_codes(u, r.e) ELSE r.e,
                  res |-> "SaveError"]
            ELSE [e |-> show_codes(u, GotoPos(load_timecodes(u, save_transcript(u, r.e)), 0)),
                  res |-> "done"]
    IN  Loaded(ImportText(u, ClearDoc(e), DropLeadBytes(text)))

LoadPickle ==
    /\ ~TranscriptObj
    /\ \E s \in StoredTranscripts :
         /\ SetEditor(load_transcript(unicode, Ed, StoredBuffer(unicode, s)))
         /\ TranscriptObj_text' = StoredBuffer(unicode, s)
    /\ GetModify' = FALSE
    /\ isLocked' = FALSE
    /\ last' = Outcome("load_transcript", 0, "done", "none", FALSE)
    /\ read_only' = TRUE
    /\ TranscriptObj' = TRUE
    /\ current_timecode' = 0 - 1
    /\ UNCHANGED <<unicode, logonVars, steps>>

LoadText ==
    LET Returned(r) ==
            /\ SetEditor(r.e)
            /\ GetModify' = (r.res # "done" /\ r.e.doc # <<>>)
            /\ TranscriptObj_text' = (IF r.res = "error" THEN TranscriptObj_text
                                      ELSE hide_codes(unicode, r.e).doc)
            /\ isLocked' = (r.res = "SaveError")
            /\ last' = Outcome("load_transcript_text", 0, r.res, "none", FALSE)
            /\ read_only' = (r.res = "done")
            /\ TranscriptObj' = (r.res # "error")
            /\ current_timecode' = 0 - 1
    IN  /\ ~TranscriptObj
        /\ \E s \in StoredTranscripts, utf8 \in BOOLEAN, db_ok \in BOOLEAN :
             Returned(load_transcript_text(unicode, Ed, TextFile(utf8, s), db_ok))
        /\ UNCHANGED <<unicode, logonVars, steps>>

\* the tool switched to editing
EditLoaded ==
    /\ TranscriptObj
    /\ read_only
    /\ read_only' = FALSE
    /\ last' = Outcome("OnReadOnlySelect", 0, "done", "none", FALSE)
    /\ UNCHANGED <<unicode, doc, anchor, curpos, codes_vis, hidden_vis, timecodes,
                   TranscriptObj, current_timecode, GetModify, TranscriptObj_text,
                   isLocked, logonVars, steps>>

\* insert_timecode at the caret the load left, while the index is short
InsertLoaded ==
    /\ TranscriptObj
    /\ ~read_only
    /\ Len(timecodes) < MaxStored
    /\ UNCHANGED steps
    /\ \E t \in 0..MaxCodecTime : CallInsertTimecode(t)

NextLoad == LoadPickle \/ LoadText \/ EditLoaded \/ InsertLoaded

SpecLoad == Init /\ [][NextLoad]_vars

----------------------------------------------------------------------------
(* Properties of loading *)

LoadOps == {"load_transcript", "load_transcript_text"}

\* C11: after load_transcript, of pickled data or of plain text, self.timecodes
\* holds exactly one entry for each well-formed marker of the loaded document,
\* in document order; a marker whose data is no integer adds no entry and
\* does not end the load.
C11_OneEntryPerMarker ==
    (last.op \in LoadOps) => (last.res = "done" /\ InSync)

\* the times load_timecodes reads from a document, the index empty before
Scanned(d) ==
    load_timecodes(unicode, [doc |-> d, a |-> 0, c |-> 0, tc |-> <<>>,
                             vis |-> 0, hv |-> FALSE]).tc

\* C12: the marker text insert_timecode(t) writes (the time-code character,
\* "<", t in decimal, ">") is read back by load_timecodes as exactly t: the
\* scan of the document after an accepted call is the scan of the document
\* before it with t put in at the place of the new marker.
C12_RoundTrip ==
    [][(last'.op = "insert_timecode" /\ last'.res = "inserted")
         => Scanned(doc') = ListInsert(Scanned(doc),
                                       MarkersBefore(unicode, doc, curpos),
                                       last'.arg)]_vars

\* C12's case: a time of two digits was written next to other markers
C12_Witness ==
    /\ last.op = "insert_timecode"
    /\ last.res = "inserted"
    /\ last.arg >= 10
    /\ Len(timecodes) >= 2

----------------------------------------------------------------------------
(* The index put to use: a transcript as it was loaded, the video asking    *)
(* for a time, the times before and after a recorded time                   *)

\* the greatest time of a marker of the transcripts looked up
MaxIndexTime == 3
\* the greatest time the video asks for
MaxSeek == 2

IndexedTranscripts ==
    UNION {[1..k -> (0..MaxIndexTime) \cup {TextToken}] : k \in 0..MaxStored}

\* what a call gave back: as Outcome, with the value returned
Returned(op, arg, res, ret) ==
    [op |-> op, arg |-> arg, res |-> res, dlg |-> "none", skip |-> FALSE, ret |-> ret]

\* select_find: while (endpos > 1) and (GetCharAt(endpos - 1) in tcList)
RECURSIVE StepLeft(_, _, _)
StepLeft(e, endpos, tcList) ==
    IF endpos > 1 /\ GetCharAt(e, endpos - 1) \in tcList
    THEN StepLeft(e, endpos - 1, tcList)
    ELSE endpos

\* select_find(text) for a text that is no number: [e, hang]
select_find(u, e, text) ==
    LET tcList == {"<", "A4"} \cup (IF u THEN {"C2"} ELSE {})
        Select(e1, cp, endpos) ==
            SetAnchor(SetCurrentPos(e1, cp), StepLeft(e1, endpos, tcList))
        Found(e1, cp, endpos) ==
            Select(e1, cp, IF endpos = -1 THEN GetLength(e1) - 1 ELSE endpos)
        Search(e1, cp) ==
            Found(e1, cp, FindText(u, e1, cp + 1, GetLength(e1) - 1, text))
        Checked(k) ==
            IF k.hang THEN k
            ELSE [e |-> Search(k.e, GetSelectionStart(k.e)), hang |-> FALSE]
    IN  Checked(CheckTimeCodesAtSelectionBoundaries(u, e))

\* scroll_to_time: the loop "for timecode in self.timecodes"
RECURSIVE ClosestTime(_, _, _)
ClosestTime(tc, ms, closest_time) ==
    IF tc = <<>> THEN closest_time
    ELSE ClosestTime(Tail(tc), ms,
                     IF Head(tc) <= ms /\ ms - Head(tc) < ms - closest_time
                     THEN Head(tc) ELSE closest_time)

\* a scroll_to_time that returns True whenever the index is not empty
scroll_to_time_TrueWhenIndexed(u, e, cur, time) ==
    LET ms == time + 2
        Selected(k, closest_time) ==
            [e |-> k.e, cur |-> closest_time,
             res |-> IF k.hang THEN "hang" ELSE "True"]
        Find(closest_time) ==
            Selected(select_find(u,
                                 cursor_find(u, e,
                                             TIMECODE_CHAR(u) \o <<"<">>
                                             \o FormatInt(closest_time) \o <<">">>),
                                 findstr(u)),
                     closest_time)
        Zero(closest_time) == Find(IF closest_time > ms THEN 0 ELSE closest_time)
    IN  IF Len(e.tc) = 0 THEN [e |-> e, cur |-> cur, res |-> "False"]
        ELSE Zero(ClosestTime(e.tc, ms, e.tc[1]))

\* scroll_to_time(ms): [e, cur, res]; cur is self.current_timecode after the
\* call, res what is returned ("hang": the call does not return)
scroll_to_time(u, e, cur, time) ==
    LET ms == time + 2
        Selected(k, closest_time) ==
            [e |-> k.e, cur |-> closest_time,
             res |-> IF k.hang THEN "hang"
                     ELSE IF k.e.c # e.c THEN "True" ELSE "False"]
        Find(closest_time) ==
            Selected(select_find(u,
                                 cursor_find(u, e,
                                             TIMECODE_CHAR(u) \o <<"<">>
                                             \o FormatInt(closest_time) \o <<">">>),
                                 findstr(u)),
                     closest_time)
        Zero(closest_time) == Find(IF closest_time > ms THEN 0 ELSE closest_time)
    IN  IF Len(e.tc) = 0 THEN [e |-> e, cur |-> cur, res |-> "False"]
        ELSE Zero(ClosestTime(e.tc, ms, e.tc[1]))

\* a NextTimeCode that takes the next entry that is not below tc
NextTimeCode_NotBelow(tcs, tc) ==
    LET Value(i) ==
            IF i < Len(tcs) THEN [res |-> "returned", ret |-> tcs[i + 1]]
            ELSE [res |-> "IndexError", ret |-> 0]
        From(i) == Value(FirstOf({j \in i..(Len(tcs) - 1) : tcs[j + 1] >= tc}, Len(tcs)))
    IN  From(ListIndex(tcs, tc) + 1)

\* NextTimeCode(tc): [res, ret]; res is "ValueError" when tc is not in the
\* list, "IndexError" when the loop runs off its end
NextTimeCode(tcs, tc) ==
    LET Value(i) ==
            IF i < Len(tcs) THEN [res |-> "returned", ret |-> tcs[i + 1]]
            ELSE [res |-> "IndexError", ret |-> 0]
        From(i) == Value(FirstOf({j \in i..(Len(tcs) - 1) : tcs[j + 1] > tc}, Len(tcs)))
        At(index) == IF index = NoPos THEN [res |-> "ValueError", ret |-> 0]
                     ELSE From(index + 1)
    IN  At(ListIndex(tcs, tc))

\* PrevTimeCode(tc): after the loop i is -1 and self.timecodes[-1] is the last
\* entry of the list
PrevTimeCode(tcs, tc) ==
    LET Value(i) ==
            [res |-> "returned", ret |-> IF i >= 0 THEN tcs[i + 1] ELSE tcs[Len(tcs)]]
        From(i) == Value(LastOf({j \in 0..i : tcs[j + 1] < tc}, 0 - 1))
        At(index) == IF index = NoPos THEN [res |-> "ValueError", ret |-> 0]
                     ELSE From(index - 1)
    IN  At(ListIndex(tcs, tc))

\* a transcript of the store as load_transcript leaves it
InitIndex ==
    /\ unicode \in BOOLEAN
    /\ \E s \in IndexedTranscripts :
         LET e == load_transcript(unicode,
                                  [doc |-> <<>>, a |-> 0, c |-> 0, tc |-> <<>>,
                                   vis |-> 0, hv |-> FALSE],
                                  BufferContents(unicode, s))
         IN  /\ doc = e.doc
             /\ anchor = e.a
             /\ curpos = e.c
             /\ timecodes = e.tc
             /\ codes_vis = e.vis
             /\ hidden_vis = e.hv
             /\ TranscriptObj_text = BufferContents(unicode, s)
    /\ read_only = TRUE
    /\ TranscriptObj = TRUE
    /\ current_timecode = 0 - 1
    /\ GetModify = FALSE
    /\ isLocked = FALSE
    /\ NoLogon
    /\ steps = 0
    /\ last = Outcome("load_transcript", 0, "done", "none", FALSE)

\* ControlObject.SetVideoSelection and the video's position: scroll_to_time
ScrollToTime ==
    LET Done(ms, r) ==
            /\ Commit(r.e)
            /\ current_timecode' = r.cur
            /\ last' = Returned("scroll_to_time", ms, r.res, 0)
    IN  /\ Running
        /\ \E ms \in 0..MaxSeek :
             Done(ms, scroll_to_time(unicode, Ed, current_timecode, ms))
        /\ UNCHANGED <<unicode, read_only, TranscriptObj, TranscriptObj_text, isLocked,
                     logonVars, steps>>

\* NextTimeCode(tc) and PrevTimeCode(tc) for a recorded time
CallNextTimeCode ==
    LET Done(tc, r) == last' = Returned("NextTimeCode", tc, r.res, r.ret)
    IN  /\ Running
        /\ \E i \in DOMAIN timecodes :
             Done(timecodes[i], NextTimeCode(timecodes, timecodes[i]))
        /\ UNCHANGED <<unicode, doc, anchor, curpos, codes_vis, hidden_vis, read_only,
                       timecodes, TranscriptObj, current_timecode, GetModify, TranscriptObj_text,
                       isLocked, logonVars, steps>>

CallPrevTimeCode ==
    LET Done(tc, r) == last' = Returned("PrevTimeCode", tc, r.res, r.ret)
    IN  /\ Running
        /\ \E i \in DOMAIN timecodes :
             Done(timecodes[i], PrevTimeCode(timecodes, timecodes[i]))
        /\ UNCHANGED <<unicode, doc, anchor, curpos, codes_vis, hidden_vis, read_only,
                       timecodes, TranscriptObj, current_timecode, GetModify, TranscriptObj_text,
                       isLocked, logonVars, steps>>

NextIndex == ScrollToTime \/ CallNextTimeCode \/ CallPrevTimeCode

SpecIndex == InitIndex /\ [][NextIndex]_vars

----------------------------------------------------------------------------
(* Properties of the index put to use *)

Recorded(v) == \E i \in DOMAIN timecodes : timecodes[i] = v

\* the greatest recorded time that is not above limit, 0 when there is none
GreatestUpTo(limit) ==
    LET q == {timecodes[i] : i \in {j \in DOMAIN timecodes : timecodes[j] <= limit}}
    IN  IF q = {} THEN 0 ELSE CHOOSE v \in q : \A w \in q : w <= v

\* C13: scroll_to_time(ms) with an index that is not empty sets
\* current_timecode to the greatest value of self.timecodes that is at most
\* ms + 2, or to 0 when there is none, whatever the order of the list.
C13_GreatestNotAbove ==
    (last.op = "scroll_to_time" /\ timecodes # <<>>)
        => current_timecode = GreatestUpTo(last.arg + 2)

C15_PrevStrictlyLess ==
    (last.op = "PrevTimeCode" /\ last.res = "returned") => last.ret < last.arg

----------------------------------------------------------------------------
(* Properties of the time range of the selection *)

\* the selection, whichever way it was made, ends outside every marker of a
\* well-formed document
SelectionOutsideMarkers ==
    /\ WellFormed(unicode, doc)
    /\ ~InsideMarker(unicode, doc, Min(anchor, curpos))
    /\ ~InsideMarker(unicode, doc, Max(anchor, curpos))

\* the (start, end) get_selected_time_range gives for the editor e
TimeRange(e) ==
    LET Pair(r) == <<r.start, r.end>>
    IN  Pair(get_selected_time_range(unicode, e))

\* C16: get_selected_time_range gives (start, end) with start the time of the
\* last marker before the start of the selection, 0 when there is none, and
\* end the time of the first marker at or after the end of the selection, -1
\* when there is none; the same result whichever end of the selection is the
\* anchor.
C16_RangeOfSelection ==
    SelectionOutsideMarkers
        => /\ TimeRange(Ed) = <<PrevTime(unicode, doc, Min(anchor, curpos)),
                                NextTime(unicode, doc, Max(anchor, curpos))>>
           /\ TimeRange([Ed EXCEPT !.a = curpos, !.c = anchor]) = TimeRange(Ed)

\* C16's case: a selection made from its end to its start after a click and
\* drag, with a marker before it and a marker after it
C16_Witness ==
    /\ SelectionOutsideMarkers
    /\ last.op = "OnLeftUp"
    /\ anchor > curpos
    /\ \E q \in MarkerStarts(unicode, doc) : MarkerEnd(unicode, doc, q) <= curpos
    /\ \E q \in MarkerStarts(unicode, doc) : q >= anchor

----------------------------------------------------------------------------
(* Timed pauses: an empty document that is being edited, the caret put      *)
(* somewhere by a click, insert_timecode and insert_timed_pause called      *)

\* the greatest time asked for when pauses are put in
MaxPauseTime == 2
\* the greatest media length (tape_length, clip_stop)
MaxMediaLength == 3
\* the greatest number of insert_timed_pause calls
MaxPauses == 1

MediaLengths == {1, MaxMediaLength}

\* "(%.1f)" % round(ms / 1000.0, 1)
FormatSecs(ms) ==
    LET abs == IF ms < 0 THEN 0 - ms ELSE ms
        Tenths(n) == FormatNat(n \div 10) \o <<".">> \o <<DIGITS[(n % 10) + 1]>>
    IN  <<"(">> \o (IF ms < 0 THEN <<"-">> ELSE <<>>) \o Tenths((abs + 50) \div 100)
        \o <<")">>

\* a test that leaves out the comparison against the next time code
TimedPauseRefused_NoNext(prevTimeCode, start_ms, end_ms, nextTimeCode) ==
    prevTimeCode > start_ms

\* insert_timed_pause: the two tests that end in the error dialog
TimedPauseRefused(prevTimeCode, start_ms, end_ms, nextTimeCode) ==
    prevTimeCode > start_ms \/ nextTimeCode < end_ms

\* insert_timed_pause(start_ms, end_ms) with the media length given:
\* [e, res], res in {"readonly", "rejected", "done"}
insert_timed_pause(u, ro, e, start_ms, end_ms, length) ==
    LET timespan == Styled(FormatSecs(end_ms - start_ms), STYLE_PLAIN)
        End(e3) == [e |-> insert_timecode(u, ro, e3, end_ms).e, res |-> "done"]
        Span(e2) == End(GotoPos(e2, e2.c + Len(timespan)))
        Start(e1) == Span(InsertText(ro, e1, e1.c, timespan))
        Decide(r) ==
            IF TimedPauseRefused(r.start, start_ms, end_ms,
                                 IF r.end = -1 THEN length ELSE r.end)
            THEN [e |-> r.e, res |-> "rejected"]
            ELSE Start(insert_timecode(u, ro, r.e, start_ms).e)
    IN  IF ro THEN [e |-> e, res |-> "readonly"]
        ELSE Decide(get_selected_time_range(u, e))

\* insert_timecode at the caret
InsertForPause ==
    /\ Running
    /\ UNCHANGED steps
    /\ \E t \in 0..MaxPauseTime : CallInsertTimecode(t)

\* insert_timed_pause(start_ms, end_ms) at the caret
InsertTimedPause ==
    LET Done(call, r) ==
            /\ Commit(r.e)
            /\ last' = Returned("insert_timed_pause", call, r.res, 0)
    IN  /\ Running
        /\ steps < MaxPauses
        /\ steps' = steps + 1
        /\ \E start_ms, end_ms \in 0..MaxPauseTime, length \in MediaLengths :
             Done(<<start_ms, end_ms, length>>,
                  insert_timed_pause(unicode, read_only, Ed, start_ms, end_ms, length))
        /\ UNCHANGED <<unicode, read_only, TranscriptObj, current_timecode, TranscriptObj_text,
                     isLocked, logonVars>>

NextPause == ClickAtCursor \/ InsertForPause \/ InsertTimedPause

SpecPause == InitInsert /\ [][NextPause]_vars

----------------------------------------------------------------------------
(* Properties of timed pauses *)

\* the time of the marker after the caret, the media length when there is none
NextOrLength(length) ==
    IF NextTime(unicode, doc, curpos) = -1 THEN length
    ELSE NextTime(unicode, doc, curpos)

\* C17: insert_timed_pause(start_ms, end_ms) while editing changes neither
\* the document nor self.timecodes when prev > start_ms or end_ms > next,
\* prev and next the times of the markers around the caret and next the
\* media length when no marker follows.
C17_RefusedChangesNothing ==
    [][(last'.op = "insert_timed_pause" /\ ~read_only /\ AtCursor
        /\ (\/ PrevTime(unicode, doc, curpos) > last'.arg[1]
            \/ last'.arg[2] > NextOrLength(last'.arg[3])))
         => (doc' = doc /\ timecodes' = timecodes /\ last'.res = "rejected")]_vars

\* C17's case: a pause was turned down between two markers
C17_Witness ==
    /\ last.op = "insert_timed_pause"
    /\ last.res = "rejected"
    /\ AtCursor
    /\ MarkersBefore(unicode, doc, curpos) >= 1
    /\ NextTime(unicode, doc, curpos) # -1

\* the text of a marker of time t
MarkerText(t) == TIMECODE_CHAR(unicode) \o <<"<">> \o FormatInt(t) \o <<">">>

\* C18: whenever the validation of insert_timed_pause passes (prev <= start_ms
\* and end_ms <= next) the document gains at the caret, in this order, a
\* marker of time start_ms, the duration annotation and a marker of time
\* end_ms, and self.timecodes gains both times; never only a part of them.
C18_AllOrNothing ==
    [][(last'.op = "insert_timed_pause" /\ ~read_only /\ AtCursor
        /\ PrevTime(unicode, doc, curpos) <= last'.arg[1]
        /\ last'.arg[2] <= NextOrLength(last'.arg[3]))
         => /\ Chars(doc') = SubSeq(Chars(doc), 1, curpos)
                             \o MarkerText(last'.arg[1])
                             \o FormatSecs(last'.arg[2] - last'.arg[1])
                             \o MarkerText(last'.arg[2])
                             \o SubSeq(Chars(doc), curpos + 1, Len(doc))
            /\ Len(timecodes') = Len(timecodes) + 2]_vars

----------------------------------------------------------------------------
(* Adjust Indexes: a loaded transcript, switched to editing, its time codes *)
(* moved by an amount                                                       *)

\* the greatest amount (ms) the time codes are moved by
MaxDelta == 8
\* the greatest number of AdjustIndexes calls
MaxAdjusts == 2

\* int(adjustmentAmount * 1000)
Deltas == {0 - MaxDelta, 0 - 1, 1, MaxDelta}

\* AdjustIndexes: the loop over the positions of self.timecodes, from loop
\* (1-based) on: [e, hang]; hang where a scan for "<" or ">" runs off the text
RECURSIVE AdjustLoop(_, _, _, _, _)
AdjustLoop(u, ro, e, delta, loop) ==
    LET Replace(e1, start, end) ==
            AdjustLoop(u, ro,
                       [InsertHiddenText(ro,
                                         ReplaceSelection(ro, SetSelection(e1, start, end),
                                                          <<>>),
                                         FormatInt(e1.tc[loop] + delta))
                        EXCEPT !.tc[loop] = @ + delta],
                       delta, loop + 1)
        End(e1, start, end) ==
            IF end = NoPos THEN [e |-> e1, hang |-> TRUE] ELSE Replace(e1, start, end)
        Start(e1, lt) ==
            IF lt = NoPos THEN [e |-> e1, hang |-> TRUE]
            ELSE End(e1, lt + 1, ScanRight(e1, lt + 1, ">"))
        Found(e1) == Start(e1, ScanRight(e1, e1.c - 1, "<"))
    IN  IF loop > Len(e.tc) THEN [e |-> e, hang |-> FALSE]
        ELSE Found(cursor_find(u, e, TIMECODE_CHAR(u) \o <<"<">>
                                     \o FormatInt(e.tc[loop]) \o <<">">>))

\* AdjustIndexes(adjustmentAmount), delta = int(adjustmentAmount * 1000):
\* [e, res]
AdjustIndexes(u, ro, e, delta) ==
    LET Finish(k) ==
            IF k.hang THEN [e |-> k.e, res |-> "hang"]
            ELSE [e |-> RestoreCursor([hide_all_hidden(k.e) EXCEPT !.vis = e.vis],
                                      CursorPosition(e)),
                  res |-> "done"]
    IN  Finish(AdjustLoop(u, ro, show_all_hidden(GotoPos(e, 0)), delta, 1))

\* ControlObject.AdjustIndexes, from the Transcript menu while editing
CallAdjustIndexes ==
    LET Done(delta, r) ==
            /\ Commit(r.e)
            /\ last' = Outcome("AdjustIndexes", delta, r.res, "none", FALSE)
    IN  /\ Running
        /\ ~read_only
        /\ steps < MaxAdjusts
        /\ steps' = steps + 1
        /\ \E delta \in Deltas : Done(delta, AdjustIndexes(unicode, read_only, Ed, delta))
        /\ UNCHANGED <<unicode, read_only, TranscriptObj, current_timecode, TranscriptObj_text,
                     isLocked, logonVars>>

NextAdjust == EditLoaded \/ ToggleCodes \/ CallAdjustIndexes

SpecAdjust == InitIndex /\ [][NextAdjust]_vars

----------------------------------------------------------------------------
(* Properties of Adjust Indexes *)

\* the text of the document outside its markers
PlainText(d) == SelectSeq(d, LAMBDA x : x.st = STYLE_PLAIN)

\* C19: AdjustIndexes(delta) on a document whose markers match the index
\* puts, in the document and in self.timecodes alike, old time + delta in the
\* place of every marker's time; the number of markers, their order and the
\* text outside the markers stay as they were, also when the number of digits
\* changes.
C19_EveryTimeMoved ==
    [][(last'.op = "AdjustIndexes" /\ Scanned(doc) = timecodes)
         => /\ last'.res = "done"
            /\ timecodes' = [i \in 1..Len(timecodes) |-> timecodes[i] + last'.arg]
            /\ Scanned(doc') = timecodes'
            /\ PlainText(doc') = PlainText(doc)]_vars

\* C20: after AdjustIndexes(delta), whatever delta is, no marker time of the
\* document or of self.timecodes is below 0.
C20_NoTimeBelowZero ==
    (last.op = "AdjustIndexes")
        => /\ \A i \in DOMAIN timecodes : timecodes[i] >= 0
           /\ \A i \in DOMAIN Scanned(doc) : Scanned(doc)[i] >= 0

----------------------------------------------------------------------------
(* Properties of one call made after another *)

\* the editor after AdjustIndexes(delta) and then AdjustIndexes(-delta)
AdjustedBack(delta) ==
    LET Back(r) == AdjustIndexes(unicode, read_only, r.e, 0 - delta)
    IN  Back(AdjustIndexes(unicode, read_only, Ed, delta))

\* C21: AdjustIndexes(d) followed by AdjustIndexes(-d), d in whole
\* milliseconds, on a document that is being edited and matches the index,
\* gives back every marker time of the document, every entry of
\* self.timecodes and the text of the document.
C21_AdjustRoundTrip ==
    (~read_only /\ Scanned(doc) = timecodes)
        => \A delta \in Deltas :
             /\ AdjustedBack(delta).res = "done"
             /\ AdjustedBack(delta).e.tc = timecodes
             /\ Chars(AdjustedBack(delta).e.doc) = Chars(doc)

\* C22: show_codes and hide_codes, in whatever order and however often, and
\* show_all_hidden followed by hide_all_hidden leave the characters of the
\* document and self.timecodes as they were; styles and codes_vis alone change.
C22_TogglingKeepsContent ==
    [][/\ (last'.op \in {"show_codes", "hide_codes"})
            => (Chars(doc') = Chars(doc) /\ timecodes' = timecodes)
       /\ Chars(hide_all_hidden(show_all_hidden(Ed)).doc) = Chars(doc)
       /\ hide_all_hidden(show_all_hidden(Ed)).tc = timecodes]_vars

\* C22's case: the codes of a document with two markers were hidden after
\* they had been shown
C22_Witness ==
    /\ last.op = "hide_codes"
    /\ codes_vis = 0
    /\ Len(timecodes) >= 2
    /\ Len(DocTimes(unicode, doc)) >= 2

----------------------------------------------------------------------------
(* Saving: ControlObject.SaveTranscript asks, saves or discards; the tool *)
(* that leaves editing, ClearAllWindows and ControlObject.LoadTranscript  *)
(* call it. The database may refuse a save (SaveError).                   *)

\* the steps of one run of saving and switching
MaxSaveSteps == 3

\* the editor with its transcript object, modify flag and mode
Win ==
    [e |-> Ed, tobj |-> TranscriptObj, mod |-> GetModify, text |-> TranscriptObj_text,
     ro |-> read_only, cur |-> current_timecode, locked |-> isLocked]

SetWin(w) ==
    /\ SetEditor(w.e)
    /\ TranscriptObj' = w.tobj
    /\ GetModify' = w.mod
    /\ TranscriptObj_text' = w.text
    /\ read_only' = w.ro
    /\ current_timecode' = w.cur
    /\ isLocked' = w.locked

\* modified()
modified(w) == w.tobj /\ w.mod

\* save_transcript with the database's answer: db_save returns, or raises
\* SaveError and the call ends there
save_transcript_db(u, w, db_ok) ==
    LET Hidden(h) ==
            IF ~w.tobj THEN [w EXCEPT !.e = save_transcript(u, w.e)]
            ELSE IF db_ok
                 THEN [w EXCEPT !.e = save_transcript(u, w.e), !.text = h.doc,
                                !.mod = FALSE]
                 ELSE [w EXCEPT !.e = h, !.text = h.doc]
    IN  Hidden(IF w.e.vis = 1 THEN hide_codes(u, w.e) ELSE w.e)

\* a ClearDoc that leaves the record lock as it is
WindowClearDoc_KeepLock(w) ==
    [w EXCEPT !.e = ClearDoc(w.e), !.tobj = FALSE, !.mod = FALSE, !.ro = TRUE,
              !.cur = 0 - 1]

\* TranscriptEditor.ClearDoc with the fields of the window: the record of the
\* transcript object, if there is one, is unlocked
WindowClearDoc(w) ==
    [w EXCEPT !.e = ClearDoc(w.e), !.tobj = FALSE, !.mod = FALSE, !.ro = TRUE,
              !.cur = 0 - 1, !.locked = IF w.tobj THEN FALSE ELSE w.locked]

\* ControlObject.SaveTranscript(prompt, cleardoc): [w, ret, res]; res tells
\* what became of the changes
SaveTranscript(u, w, prompt, cleardoc, answer, db_ok) ==
    IF modified(w)
    THEN IF ~prompt \/ answer = "yes"
         THEN [w |-> save_transcript_db(u, w, db_ok), ret |-> 1,
               res |-> IF db_ok THEN "saved" ELSE "SaveError"]
         ELSE [w |-> IF cleardoc THEN WindowClearDoc(w) ELSE w, ret |-> 0,
               res |-> "discarded"]
    ELSE [w |-> w, ret |-> 1, res |-> "unmodified"]

\* load_transcript(tobj) of the tool that leaves editing, which has set
\* self.TranscriptObj to None: the stored text read again and, for an episode
\* transcript, saved at once with the record locked
ReloadTranscript(u, w, db_ok) ==
    LET c == WindowClearDoc([w EXCEPT !.tobj = FALSE])
        e1 == [c.e EXCEPT !.doc = w.text, !.hv = FALSE]
    IN  IF db_ok
        THEN [c EXCEPT !.e = load_transcript(u, c.e, w.text), !.tobj = TRUE,
                       !.locked = FALSE]
        ELSE [c EXCEPT !.e = GotoPos(e1, Len(w.text)), !.tobj = TRUE, !.mod = TRUE,
                       !.ro = FALSE, !.locked = TRUE]

\* TranscriptToolbar.OnReadOnlySelect, the tool switched to read-only
LeaveEditMode(u, w, answer, db_ok) ==
    LET Saved(s) ==
            IF s.ret = 0
            THEN IF s.w.tobj
                 THEN [w |-> ReloadTranscript(u, s.w, db_ok),
                       res |-> IF db_ok THEN s.res ELSE "SaveError"]
                 ELSE [w |-> [s.w EXCEPT !.ro = TRUE], res |-> s.res]
            ELSE [w |-> [s.w EXCEPT !.ro = TRUE], res |-> s.res]
    IN  Saved(SaveTranscript(u, w, TRUE, FALSE, answer, db_ok))

\* ControlObject.ClearAllWindows
ClearAllWindows(u, w, answer, db_ok) ==
    LET Saved(s) == [w |-> WindowClearDoc(s.w), res |-> s.res]
    IN  Saved(SaveTranscript(u, w, TRUE, FALSE, answer, db_ok))

\* ControlObject.LoadTranscript: the save, ClearAllWindows and, the video
\* loaded, the new transcript
ControlLoadTranscript(u, w, answer, db_ok, again, db_again, video, contents) ==
    LET Loaded(c) ==
            IF video
            THEN [c EXCEPT !.e = load_transcript(u, c.e, contents), !.tobj = TRUE,
                           !.text = contents]
            ELSE c
        Cleared(s, c) ==
            [w |-> Loaded(c.w), res |-> IF c.res = "unmodified" THEN s.res ELSE c.res]
        Saved(s) == Cleared(s, ClearAllWindows(u, s.w, again, db_again))
    IN  Saved(SaveTranscript(u, w, TRUE, TRUE, answer, db_ok))

SaveStep == steps < MaxSaveSteps /\ steps' = steps + 1

\* a transcript loaded in the window
InitWindow ==
    /\ unicode \in BOOLEAN
    /\ \E s \in Transcripts :
         LET e == load_transcript(unicode,
                                  [doc |-> <<>>, a |-> 0, c |-> 0, tc |-> <<>>,
                                   vis |-> 0, hv |-> FALSE],
                                  BufferContents(unicode, s))
         IN  /\ doc = e.doc
             /\ anchor = e.a
             /\ curpos = e.c
             /\ timecodes = e.tc
             /\ codes_vis = e.vis
             /\ hidden_vis = e.hv
             /\ TranscriptObj_text = BufferContents(unicode, s)
    /\ read_only = TRUE
    /\ TranscriptObj = TRUE
    /\ current_timecode = 0 - 1
    /\ GetModify = FALSE
    /\ isLocked = FALSE
    /\ steps = 0
    /\ last = Outcome("load_transcript", 0, "done", "none", FALSE)

InitSave == InitWindow /\ NoLogon

\* insert_timecode while editing
InsertEditing ==
    /\ TranscriptObj
    /\ ~read_only
    /\ SaveStep
    /\ \E t \in Times : CallInsertTimecode(t)

\* TranscriptToolbar.OnSave: ControlObject.SaveTranscript()
OnSave ==
    LET Done(s) ==
            /\ SetWin(s.w)
            /\ last' = Outcome("OnSave", 0, s.res, "none", FALSE)
    IN  /\ SaveStep
        /\ \E db_ok \in BOOLEAN :
             Done(SaveTranscript(unicode, Win, FALSE, FALSE, "yes", db_ok))
        /\ UNCHANGED <<unicode, logonVars>>

\* TranscriptToolbar.OnReadOnlySelect, the tool switched to read-only
OnReadOnlyLeave ==
    LET Done(answer, r) ==
            /\ SetWin(r.w)
            /\ last' = Outcome("OnReadOnlySelect", 1, r.res,
                               IF modified(Win) THEN answer ELSE "none", FALSE)
    IN  /\ TranscriptObj
        /\ ~read_only
        /\ SaveStep
        /\ \E answer \in {"yes", "no"}, db_ok \in BOOLEAN :
             Done(answer, LeaveEditMode(unicode, Win, answer, db_ok))
        /\ UNCHANGED <<unicode, logonVars>>

\* ClearAllWindows; what is remembered tells whether the record was locked
CallClearAllWindows ==
    LET Done(answer, r) ==
            /\ SetWin(r.w)
            /\ last' = Outcome("ClearAllWindows", IF isLocked THEN 1 ELSE 0, r.res,
                               IF modified(Win) THEN answer ELSE "none", FALSE)
    IN  /\ SaveStep
        /\ \E answer \in {"yes", "no"}, db_ok \in BOOLEAN :
             Done(answer, ClearAllWindows(unicode, Win, answer, db_ok))
        /\ UNCHANGED <<unicode, logonVars>>

CallLoadTranscript ==
    LET Done(again, r) ==
            /\ SetWin(r.w)
            /\ last' = Outcome("LoadTranscript", 0, r.res,
                               IF modified(Win) THEN again ELSE "none", FALSE)
    IN  /\ SaveStep
        /\ \E answer \in {"yes", "no"}, db_ok \in BOOLEAN, again \in {"yes", "no"},
              db_again \in BOOLEAN, video \in BOOLEAN, s \in Transcripts :
             Done(again, ControlLoadTranscript(unicode, Win, answer, db_ok, again,
                                               db_again, video,
                                               BufferContents(unicode, s)))
        /\ UNCHANGED <<unicode, logonVars>>

NextSave ==
    \/ EditLoaded
    \/ InsertEditing
    \/ ToggleCodes
    \/ OnSave
    \/ OnReadOnlyLeave
    \/ CallClearAllWindows
    \/ CallLoadTranscript

SpecSave == InitSave /\ [][NextSave]_vars

----------------------------------------------------------------------------
(* Properties of saving *)

\* C23: the tool that leaves editing makes the editor read-only only with the
\* changes saved or discarded: whenever OnReadOnlySelect takes the editor from
\* Editable to ReadOnly, the editor holds no unsaved modification afterwards,
\* and after a discard the document is the stored text again
C23_ReadOnlyOnlyWhenClean ==
    [][(~read_only /\ read_only' /\ last'.op = "OnReadOnlySelect")
         => /\ ~(TranscriptObj' /\ GetModify')
            /\ last'.res \in {"unmodified", "saved", "discarded"}
            /\ (last'.res = "discarded") => (Chars(doc') = Chars(TranscriptObj_text'))]_vars

\* C24: save_transcript keeps the state of the editor, whether the database
\* takes the save or raises SaveError: the text of the document,
\* self.timecodes, codes_vis and the read-only flag are after the call what
\* they were before it
C24_SaveKeepsState ==
    [][(last'.op = "OnSave" /\ last'.res \in {"saved", "SaveError"})
         => /\ Chars(doc') = Chars(doc)
            /\ timecodes' = timecodes
            /\ codes_vis' = codes_vis
            /\ read_only' = read_only]_vars

\* C25: a transcript with unsaved modifications is replaced or cleared by
\* ControlObject.LoadTranscript or ClearAllWindows only with the changes
\* saved or the save question answered No: the call never ends with the
\* save refused by the database (SaveError) and the document gone
C25_FlushBeforeSwitch ==
    [][(last'.op \in {"LoadTranscript", "ClearAllWindows"} /\ modified(Win))
         => last'.res \in {"saved", "discarded"}]_vars

----------------------------------------------------------------------------
(* Properties of the keys applied to a selection *)

SelStart == Min(anchor, curpos)
SelEnd == Max(anchor, curpos)

\* a selection, while editing, whose bounds lie outside the markers of a
\* well-formed document that the index matches
SelectionAtMarkerBounds ==
    /\ ~read_only
    /\ anchor # curpos
    /\ WellFormed(unicode, doc)
    /\ ~InsideMarker(unicode, doc, SelStart)
    /\ ~InsideMarker(unicode, doc, SelEnd)
    /\ InSync

\* the number of markers inside the selection
MarkersSelected == MarkersBefore(unicode, doc, SelEnd) - MarkersBefore(unicode, doc, SelStart)

\* C26: a confirmed DELETE or BACKSPACE on a selection that holds k >= 1
\* markers takes out of self.timecodes exactly the k entries of these markers,
\* wherever the selection lies
C26_SelectionRemovesItsEntries ==
    [][(/\ last'.op \in {"DELETE", "BACK"} /\ last'.dlg = "yes"
        /\ SelectionAtMarkerBounds /\ MarkersSelected >= 1)
         => timecodes' = ListCut(timecodes, MarkersBefore(unicode, doc, SelStart),
                                 MarkersBefore(unicode, doc, SelEnd))]_vars

\* C27: a character typed over a selection that holds markers, the question
\* answered Yes, stands in place of the selection, and the entries of these
\* markers are taken out of self.timecodes, so that the index matches the
\* document afterwards
C27_TypingRemovesEntries ==
    [][(/\ last'.op = "CHAR" /\ last'.dlg = "yes"
        /\ SelectionAtMarkerBounds /\ MarkersSelected >= 1)
         => /\ Chars(doc') = Chars(SubSeq(doc, 1, SelStart)) \o <<"x">>
                               \o Chars(SubSeq(doc, SelEnd + 1, Len(doc)))
            /\ timecodes' = ListCut(timecodes, MarkersBefore(unicode, doc, SelStart),
                                    MarkersBefore(unicode, doc, SelEnd))
            /\ timecodes' = DocTimes(unicode, doc')]_vars

\* C28: DELETE, BACKSPACE or a typed character on a selection that holds no
\* marker asks nothing and leaves self.timecodes as it is; the selected text
\* alone goes, the typed character standing in its place
C28_PlainSelection ==
    [][(/\ last'.op \in KeyOps
        /\ SelectionAtMarkerBounds /\ MarkersSelected = 0)
         => /\ last'.dlg = "none"
            /\ timecodes' = timecodes
            /\ doc' = SubSeq(doc, 1, SelStart)
                        \o (IF last'.op = "CHAR" THEN Styled(<<"x">>, STYLE_PLAIN)
                            ELSE <<>>)
                        \o SubSeq(doc, SelEnd + 1, Len(doc))]_vars

\* C28's case: a key met a selection, asked nothing, and the markers of the
\* document and their entries are all still there
C28_Witness ==
    /\ last.op \in KeyOps
    /\ last.arg >= 1
    /\ last.dlg = "none"
    /\ ~read_only
    /\ Len(timecodes) >= 1
    /\ InSync

----------------------------------------------------------------------------
(* Properties of the visibility mode *)

\* C29: the operations that show the hidden text for a while put the
\* visibility mode back: after a DELETE or BACKSPACE that asked about a
\* marker or a selection, answered Yes or No, and after AdjustIndexes,
\* codes_vis is what it was before
C29_VisibilityRestored ==
    [][(/\ last'.res # "hang"
        /\ \/ last'.op \in {"DELETE", "BACK"} /\ last'.dlg # "none"
           \/ last'.op = "AdjustIndexes")
         => codes_vis' = codes_vis]_vars

----------------------------------------------------------------------------
(* Properties of what scroll_to_time returns *)

\* C30: scroll_to_time(ms) returns True exactly when the position of the
\* caret after the call is not the one before it; with an empty index it
\* returns False and leaves the caret, the selection and current_timecode
\* as they are
C30_TrueWhenMoved ==
    [][(last'.op = "scroll_to_time" /\ last'.res # "hang")
         => /\ last'.res \in {"True", "False"}
            /\ (last'.res = "True") <=> (curpos' # curpos)
            /\ (timecodes = <<>>)
                 => /\ last'.res = "False"
                    /\ curpos' = curpos
                    /\ anchor' = anchor
                    /\ current_timecode' = current_timecode
                    /\ doc' = doc]_vars

\* C30's case: in a transcript of two markers or more a call has returned
\* False with the caret left inside the document, where an earlier call put it
C30_Witness ==
    /\ last.op = "scroll_to_time"
    /\ last.res = "False"
    /\ Len(timecodes) >= 2
    /\ curpos > 0
    /\ current_timecode >= 0

----------------------------------------------------------------------------
(* Properties of the queries *)

\* the editor get_selected_time_range leaves behind
AfterTimeRange == get_selected_time_range(unicode, Ed).e

\* C31: get_selected_time_range only reads: the document and self.timecodes
\* after the call are those before it, and the selection runs from the
\* smaller to the greater of the two offsets it had before
C31_TimeRangeOnlyReads ==
    /\ AfterTimeRange.doc = doc
    /\ AfterTimeRange.tc = timecodes
    /\ GetSelectionStart(AfterTimeRange) = Min(anchor, curpos)
    /\ GetSelectionEnd(AfterTimeRange) = Max(anchor, curpos)
    /\ AfterTimeRange.vis = codes_vis

\* C31's case: the mouse has made a selection, the caret at its start, in a
\* document with a marker before the selection and one after it
C31_Witness ==
    /\ last.op = "OnLeftUp"
    /\ curpos < anchor
    /\ \E p, q \in MarkerStarts(unicode, doc) : p < curpos /\ anchor <= q

----------------------------------------------------------------------------
(* Properties of the state a load and ClearDoc leave *)

\* C32: after a load_transcript that ran to its end the editor is read-only;
\* after ClearDoc it is read-only, the index is empty, current_timecode is
\* -1, there is no transcript object and the record lock is not held
C32_StateAfterLoadAndClear ==
    /\ (last.op = "LoadTranscript" /\ TranscriptObj) => read_only
    /\ (last.op \in {"ClearAllWindows", "LoadTranscript"} /\ ~TranscriptObj)
         => /\ read_only
            /\ doc = <<>>
            /\ timecodes = <<>>
            /\ current_timecode = 0 - 1
            /\ ~isLocked

\* C32's case: ClearAllWindows has cleared an editor whose record was locked
C32_Witness ==
    /\ last.op = "ClearAllWindows"
    /\ last.arg = 1
    /\ ~TranscriptObj

\* C33 as stated: after a load_transcript that ran to its end the time codes
\* are hidden (codes_vis = 0).
C33_HiddenAfterLoad ==
    (last.op \in LoadOps /\ last.res = "done") => codes_vis = 0

\* C33: after a load_transcript that ran to its end, of pickled data or of
\* plain text, the time codes are shown (codes_vis = 1) and the hidden style
\* is not made visible.
C33_ShownAfterLoad ==
    (last.op \in LoadOps /\ last.res = "done") => (codes_vis = 1 /\ ~hidden_vis)

\* C33's case: a transcript with markers was loaded from plain text
C33_Witness ==
    /\ last.op = "load_transcript_text"
    /\ last.res = "done"
    /\ Len(timecodes) >= 2

\* C34: the record lock load_transcript takes around the save that converts
\* the transcript is released when load_transcript ends, also when that save
\* raises an error: after a load the lock is not held
C34_LockReleasedAfterLoad ==
    (last.op \in LoadOps) => ~isLocked

----------------------------------------------------------------------------
(* Properties of the selection bounds *)

\* the bounds CheckTimeCodesAtSelectionBoundaries leaves lie outside the
\* markers of the document
BoundsOutsideMarkers(k) ==
    k.hang \/ (/\ ~InsideMarker(unicode, doc, GetSelectionStart(k.e))
               /\ ~InsideMarker(unicode, doc, GetSelectionEnd(k.e))
               /\ GetSelectionStart(k.e) <= GetSelectionEnd(k.e)
               /\ k.e.doc = doc)

\* C35: after CheckTimeCodesAtSelectionBoundaries has returned, for whatever
\* caret or selection the mouse made in a document of letters and complete
\* markers, neither the caret nor an end of the selection lies strictly
\* inside a marker, and the start of the selection is not after its end
C35_BoundsOutsideMarkers ==
    WellFormed(unicode, doc)
        => \A pa, pc \in MousePositions(unicode, doc, hidden_vis) :
             pa <= pc
               => BoundsOutsideMarkers(
                      CheckTimeCodesAtSelectionBoundaries(unicode,
                                                          SetSelection(Ed, pa, pc)))


\* C36: while the editor is read-only no operation changes the text of the
\* document or self.timecodes: insert_timecode and insert_timed_pause return
\* without effect, and DELETE, BACKSPACE and a typed character, on a caret or
\* on a selection, whatever the answer to the prompt, leave both as they were
C36_ReadOnlyChangesNothing ==
    [][(read_only /\ last'.op \in {"insert_timecode", "DELETE", "BACK", "CHAR"})
          => (/\ Chars(doc') = Chars(doc)
              /\ timecodes' = timecodes
              /\ \A start_ms, end_ms \in 0..MaxPauseTime :
                   LET r == insert_timed_pause(unicode, read_only, Ed, start_ms, end_ms,
                                               MaxMediaLength)
                   IN  Chars(r.e.doc) = Chars(doc) /\ r.e.tc = timecodes)]_vars


\* C37: DELETE and BACKSPACE are equivalent on a selection that contains at
\* least one marker: from the same document, index, selection and answer both
\* keys end with the same document text and the same self.timecodes, also
\* when no marker follows the selection
C37_DeleteEqualsBackspace ==
    (/\ anchor # curpos
     /\ FindText(unicode, Ed, GetSelectionStart(Ed), GetSelectionEnd(Ed),
                 TIMECODE_CHAR(unicode)) # -1)
        => \A answer \in {"yes", "no"} :
             LET Same(d, b) == Chars(d.e.doc) = Chars(b.e.doc) /\ d.e.tc = b.e.tc
             IN  Same(OnKeyPressSelection(unicode, read_only, Ed, answer, "DELETE"),
                      OnKeyPressSelection(unicode, read_only, Ed, answer, "BACK"))


----------------------------------------------------------------------------
(* GetNewDatabase (ControlObjectClass.py, lines 320-387): the windows are  *)
(* cleared, the database closed and the logon tried up to three times.     *)

\* the events of one run: edits and changes of database
MaxLogonSteps == 3

LogonStep == steps < MaxLogonSteps /\ steps' = steps + 1

\* a loop body that also asks after the third failed logon
LogonAttempt_AskAfterThird(count, exists, answer, single) ==
    LET Asked(c, ask) ==
            [logonCount |-> IF ask /\ answer = "no" THEN 4 ELSE c,
             loggedOn |-> exists,
             asked |-> ask,
             start |-> ~single /\ exists]
    IN  Asked(count + 1, ~exists /\ count + 1 <= 4)

\* one pass of the while loop (lines 360-382): the counter is incremented,
\* establish_db_exists() tells whether the logon succeeded, a failure on the
\* first or second pass asks whether to try again and No sets the counter to
\* 4; start tells that connectionTimer.Start() is called
LogonAttempt(count, exists, answer, single) ==
    LET Asked(c, ask) ==
            [logonCount |-> IF ask /\ answer = "no" THEN 4 ELSE c,
             loggedOn |-> exists,
             asked |-> ask,
             start |-> ~single /\ exists]
    IN  Asked(count + 1, ~exists /\ count + 1 <= 3)

InitLogon ==
    /\ InitWindow
    /\ singleUserVersion \in BOOLEAN
    /\ connectionTimer = ~singleUserVersion
    /\ logonCount = 1
    /\ loggedOn = FALSE
    /\ logon_pc = "idle"
    /\ attempts = 0
    /\ prompts = 0

\* the user's work between two changes of database
LogonEdit ==
    /\ logon_pc = "idle"
    /\ EditLoaded

LogonInsert ==
    /\ logon_pc = "idle"
    /\ TranscriptObj
    /\ ~read_only
    /\ LogonStep
    /\ \E t \in Times : CallInsertTimecode(t)

\* GetNewDatabase up to the loop (lines 320-358): ClearAllWindows, the timer
\* stopped in the multi-user version, the database closed, the counters set
GetNewDatabase ==
    LET Done(answer, r) ==
            /\ SetWin(r.w)
            /\ last' = Outcome("close_db", 0, r.res,
                               IF modified(Win) THEN answer ELSE "none", FALSE)
    IN  /\ logon_pc = "idle"
        /\ LogonStep
        /\ \E answer \in {"yes", "no"}, db_ok \in BOOLEAN :
             Done(answer, ClearAllWindows(unicode, Win, answer, db_ok))
        /\ connectionTimer' = (singleUserVersion /\ connectionTimer)
        /\ logonCount' = 1
        /\ loggedOn' = FALSE
        /\ logon_pc' = "loop"
        /\ attempts' = 0
        /\ prompts' = 0
        /\ UNCHANGED <<unicode, singleUserVersion>>

\* one pass of the loop; what is remembered: the number of the attempt, how
\* it ended and the answer to the question, "none" when none was asked
TryLogon ==
    LET Done(exists, answer, r) ==
            /\ logonCount' = r.logonCount
            /\ loggedOn' = r.loggedOn
            /\ attempts' = attempts + 1
            /\ prompts' = prompts + (IF r.asked THEN 1 ELSE 0)
            /\ connectionTimer' = (connectionTimer \/ r.start)
            /\ last' = Outcome("establish_db_exists", attempts + 1,
                               IF exists THEN "done" ELSE "failed",
                               IF r.asked THEN answer ELSE "none", FALSE)
    IN  /\ logon_pc = "loop"
        /\ logonCount <= 3
        /\ ~loggedOn
        /\ \E exists \in BOOLEAN, answer \in {"yes", "no"} :
             Done(exists, answer,
                  LogonAttempt(logonCount, exists, answer, singleUserVersion))
        /\ UNCHANGED <<unicode, doc, anchor, curpos, codes_vis, hidden_vis, read_only,
                       timecodes, TranscriptObj, current_timecode, GetModify,
                       TranscriptObj_text, isLocked, singleUserVersion, logon_pc, steps>>

\* the loop left (lines 383-386): OnFileExit closes the program unless the
\* logon succeeded
LogonReturn ==
    /\ logon_pc = "loop"
    /\ ~(logonCount <= 3 /\ ~loggedOn)
    /\ logon_pc' = (IF loggedOn THEN "idle" ELSE "closed")
    /\ last' = Outcome("GetNewDatabase", attempts,
                       IF loggedOn THEN "done" ELSE "OnFileExit", "none", FALSE)
    /\ UNCHANGED <<unicode, doc, anchor, curpos, codes_vis, hidden_vis, read_only,
                   timecodes, TranscriptObj, current_timecode, GetModify,
                   TranscriptObj_text, isLocked, singleUserVersion, connectionTimer,
                   logonCount, loggedOn, attempts, prompts, steps>>

NextLogon == LogonEdit \/ LogonInsert \/ GetNewDatabase \/ TryLogon \/ LogonReturn

\* the logon and the modal question return, so the loop goes on
SpecLogon ==
    InitLogon /\ [][NextLogon]_vars /\ WF_vars(TryLogon) /\ WF_vars(LogonReturn)

\* C38: GetNewDatabase terminates and makes at most three attempts to
\* connect: it asks whether to try again only after the first and the second
\* failed attempt, makes a further attempt only after a failure answered Yes,
\* closes the program (OnFileExit) exactly when no attempt succeeded, and
\* starts the connection timer again only in the multi-user version after a
\* successful logon
C38_LogonTerminates ==
    /\ [](attempts <= 3)
    /\ [](prompts = IF loggedOn THEN attempts - 1
                    ELSE IF attempts < 2 THEN attempts ELSE 2)
    /\ [][(attempts' = attempts + 1)
            => (/\ ~loggedOn
                /\ last.op = "establish_db_exists"
                     => (last.res = "failed" /\ last.dlg = "yes"))]_vars
    /\ [](last.op = "GetNewDatabase" => (logon_pc = "closed" <=> ~loggedOn))
    /\ [](logon_pc = "closed" => ~loggedOn)
    /\ [][(connectionTimer' /\ ~connectionTimer)
            => (loggedOn' /\ ~singleUserVersion)]_vars
    /\ [](logon_pc = "loop" /\ connectionTimer => loggedOn)
    /\ (logon_pc = "loop" ~> logon_pc # "loop")

\* three failed attempts in the multi-user version: two questions answered
\* Yes, none after the third, and the program closed
C38_Witness ==
    /\ last.op = "GetNewDatabase"
    /\ ~singleUserVersion
    /\ attempts = 3
    /\ prompts = 2
    /\ logon_pc = "closed"

====
